---- MODULE Spec2Model ----
(***************************************************************************)
(* Model of the timer-driven LED effect engine of the Noiasca tool kit     *)
(* (include/Noiasca_led.h): LedBase, Effect and the single-effect classes. *)
(*                                                                         *)
(* Objects are records; every method is an operator from the object before *)
(* the call to the object after it.  The hardware sink is the field obj    *)
(* (the last value written); the fields writes and cbs log the sink writes *)
(* and the callback invocations of the call in progress.                   *)
(***************************************************************************)
EXTENDS Integers, Sequences, FiniteSets, TLC

VARIABLES
  clock,    \* millis(): the wall clock, a 32-bit counter
  ticks,    \* milliseconds the run has lasted
  active,   \* the class of the object this run drives
  fx,       \* the object: its fields, its sink and the logs of the last call
  h,        \* the last call: its name and the state before it
  setup,    \* configuration calls made so far
  g         \* measurements of the run (sink edges, phase lengths, timers)

vars == <<clock, ticks, active, fx, h, setup, g>>

(***************************************************************************)
(* Bounds of the model.                                                    *)
(***************************************************************************)
MaxTicks == 2        \* milliseconds of wall clock in a run of Spec
MaxSetup == 2        \* configuration calls (setters, setMode*) in a run of Spec
WrapLead == 1        \* a run may start this many ms before millis() wraps
MaxLead == 60        \* a polled object was constructed up to this many ms early
MaxMonoInterval == 3 \* longest on-interval of a monoflop run, in ms
MaxMonoTicks == 7    \* milliseconds a monoflop run lasts
MaxHeartBrightness == 2 \* largest maxBrightness of a heartbeat run
MaxHeartInterval == 1 \* longest step interval of a heartbeat run, in ms
MaxHeartTicks == 10  \* milliseconds a heartbeat run lasts
MaxPolls == 1100     \* update() calls of a run polled every millisecond
MaxTrafficMs == 30000 \* milliseconds a polled traffic light runs
MaxFluorMs == 10700 \* milliseconds a polled fluorescent tube runs
MaxTwinTicks == 2 \* milliseconds of wall clock in a run of SpecTwin
MaxStamps == 3 \* milliseconds of injected time in a run of SpecTwin
MaxSmoothBrightness == 3 \* largest maxBrightness of a run of SpecSmooth
MaxSmoothMs == 120 \* milliseconds a polled smooth effect runs
MaxSmoothCalls == 2 \* setMaxBrightness(), on() and off() calls in a run of SpecSmooth
MaxBeatBrightness == 4 \* largest brightness bound of a run of SpecBeat
MaxBeatMs == 12 \* milliseconds a polled Heartbeat runs
MaxBeatCalls == 2 \* on() and off() calls in a run of SpecBeat
MaxFlickerPolls == 3 \* polls of a run of SpecFlicker
MaxHazardMs == 12 \* milliseconds a polled Turnsignal runs
MaxHazardCalls == 2 \* hazard(), left() and off() calls in a run of SpecHazard
MaxBounceMs == 30 \* milliseconds a polled Bounce5 runs
MaxBounceCalls == 2 \* on() and off() calls in a run of SpecBounce
MaxTrafficTicks == 3 \* milliseconds of wall clock in a run of SpecTraffic
MaxTrafficSetup == 1 \* configuration calls in a run of SpecTraffic
MaxLimit == 3 \* largest limit of a timer in SpecTimer
MaxTimerMs == 6 \* milliseconds a timer is observed
MaxTimerCalls == 2 \* start() and stop() calls in a run of SpecTimer
MaxTubeMs == 6500 \* milliseconds a fluorescent tube is polled in SpecTube
MaxTubeCalls == 2 \* on() and off() calls in a run of SpecTube
MaxFadeMs == 16 \* milliseconds a smooth effect is polled in SpecFade
MaxFadeCalls == 2 \* on(), off() and offForced() calls in a run of SpecFade
MaxPatternPolls == 10 \* update() calls in a run of SpecPattern
MaxPatternCalls == 2 \* other calls in a run of SpecPattern
MaxPairMs == 8 \* milliseconds of wall clock in a run of SpecPair
MaxButtonMs == 260 \* milliseconds of caller-supplied time in SpecButton

(***************************************************************************)
(* uint32_t as two 16-bit limbs <<high, low>>.                             *)
(***************************************************************************)
TwoTo8 == 2 ^ 8
TwoTo16 == 2 ^ 16

U32(n) == <<n \div TwoTo16, n % TwoTo16>>

\* a + n (mod 2^32), 0 <= n < 2^16
Add32(a, n) ==
  LET lo == a[2] + n
  IN  <<(a[1] + lo \div TwoTo16) % TwoTo16, lo % TwoTo16>>

\* the uint32_t expression  currentMillis - previousMillis
Elapsed(now, prev) ==
  IF now[2] >= prev[2]
  THEN <<(now[1] - prev[1]) % TwoTo16, now[2] - prev[2]>>
  ELSE <<(now[1] - prev[1] - 1) % TwoTo16, now[2] - prev[2] + TwoTo16>>

\* d >= n and d > n for a uint32_t d and an interval 0 <= n < 2^31
GE32(d, n) ==
  d[1] > n \div TwoTo16 \/ (d[1] = n \div TwoTo16 /\ d[2] >= n % TwoTo16)

GT32(d, n) ==
  d[1] > n \div TwoTo16 \/ (d[1] = n \div TwoTo16 /\ d[2] > n % TwoTo16)

(***************************************************************************)
(* The hardware sink: digWrite(LOW/HIGH) and pwmWrite(level).              *)
(***************************************************************************)
LOW == 0
HIGH == 1

Dig(v) == [k |-> "dig", v |-> v]
Pwm(v) == [k |-> "pwm", v |-> v]

\* obj.digWrite(v) / obj.pwmWrite(v) on the object's sink
digWrite(o, v) == [o EXCEPT !.obj = Dig(v), !.writes = Append(@, Dig(v))]
pwmWrite(o, v) == [o EXCEPT !.obj = Pwm(v), !.writes = Append(@, Pwm(v))]

\* cbStateChange(value)
Invoke(o, value) == [o EXCEPT !.cbs = Append(@, value)]

\* if (cbStateChange && previousState != state) cbStateChange(state);
NotifyChange_Always(o, previousState) ==
  IF o.cbStateChange THEN Invoke(o, o.state) ELSE o

NotifyChange(o, previousState) ==
  IF o.cbStateChange /\ previousState # o.state THEN Invoke(o, o.state) ELSE o

\* if (cbStateChange) cbStateChange(state);
Notify(o) == IF o.cbStateChange THEN Invoke(o, o.state) ELSE o

\* random(lo, hi) returns lo .. hi-1; a draw is one of the two ends
Random(lo, hi, pick) == IF pick = 0 THEN lo ELSE hi - 1

\* random(howbig) returns 0 .. howbig-1, and 0 for howbig == 0
RandomTo(howbig, pick) == IF howbig = 0 THEN 0 ELSE Random(0, howbig, pick)

(***************************************************************************)
(* class Effect : LedBase                                                  *)
(***************************************************************************)
Modes == {"ONOFF", "BLINK", "FLICKER", "FLUORESCENT", "HEARTBEAT", "PULSE",
          "RHYTHM", "SMOOTH"}

\* the object after construction at wall-clock time now, its sink begun
Effect_new(now) ==
  [ state |-> 1, cbStateChange |-> FALSE, obj |-> Dig(LOW),
    writes |-> <<>>, cbs |-> <<>>,
    mode |-> "ONOFF", previousMillis |-> now, previousMillisEffect |-> now,
    maxBrightness |-> 255, minBrightness |-> 0, currentBrightness |-> 0,
    lengthOfPattern |-> 4, interval |-> <<150, 60, 20, 270, 0, 0, 0, 0>> ]

\* interval[i] of the C++ array (0-based)
Iv(e, i) == e.interval[i + 1]
SetIv(e, i, v) == [e EXCEPT !.interval[i + 1] = v]

Effect_setOnStateChange(e, funcPtr) == [e EXCEPT !.cbStateChange = funcPtr]

Effect_off(e) ==
  LET e1 == [e EXCEPT !.state = 0]
      e2 == IF e.mode # "SMOOTH"
            THEN [digWrite(e1, LOW) EXCEPT !.currentBrightness = 0]
            ELSE e1
  IN  NotifyChange(e2, e.state)

Effect_on(e, force, millis, pick) ==
  LET e1 == IF e.state = 0 \/ force THEN [e EXCEPT !.state = 1] ELSE e
      e2 == IF e.mode \in {"ONOFF", "PULSE"}
            THEN [digWrite(e1, HIGH) EXCEPT !.previousMillis = millis]
            ELSE IF e.mode = "FLUORESCENT"
            THEN LET f1 == [e1 EXCEPT !.currentBrightness = 0,
                                      !.previousMillis = millis]
                     f2 == pwmWrite(f1, 2)
                     f3 == SetIv(f2, 1, Random(50, 500, pick))
                 IN  SetIv(f3, 0, Random(500, 5000, pick))
            ELSE e1
  IN  NotifyChange(e2, e.state)

Effect_offForced(e) ==
  LET e1 == [e EXCEPT !.state = 0, !.currentBrightness = 0]
  IN  NotifyChange(pwmWrite(e1, 0), e.state)

Effect_setCurrentBrightness(e, brightness) ==
  pwmWrite([e EXCEPT !.currentBrightness = brightness], brightness)

Effect_setMaxBrightness(e, maxBrightness) ==
  [e EXCEPT !.maxBrightness = maxBrightness]

Effect_setOnInterval(e, newInterval) == SetIv(e, 0, newInterval)

Effect_setOffInterval(e, newInterval) == SetIv(e, 1, newInterval)

Effect_toggle(e, millis, pick) ==
  IF e.state = 0 THEN Effect_on(e, FALSE, millis, pick) ELSE Effect_off(e)

\* setInterval with 2, 4, 6 or 8 arguments: iv is the argument list
Effect_setInterval(e, iv) ==
  LET slot(i) == IF i <= Len(iv) THEN iv[i] ELSE e.interval[i]
  IN  [e EXCEPT !.interval = <<slot(1), slot(2), slot(3), slot(4),
                               slot(5), slot(6), slot(7), slot(8)>>,
                !.lengthOfPattern = Len(iv)]

\* if (state) state = 1;
NormaliseState(e) == IF e.state # 0 THEN [e EXCEPT !.state = 1] ELSE e

Effect_setModeOnOff(e) == [e EXCEPT !.mode = "ONOFF"]

Effect_setModeBlink(e) ==
  Effect_setOffInterval(Effect_setOnInterval([e EXCEPT !.mode = "BLINK"], 500), 500)

Effect_setModeFlicker(e) ==
  NormaliseState(SetIv([e EXCEPT !.mode = "FLICKER"], 0, 100))

Effect_setModeFluorescent(e, pick) ==
  LET e1 == SetIv([e EXCEPT !.mode = "FLUORESCENT"], 0, Random(500, 5000, pick))
  IN  NormaliseState(SetIv(e1, 1, Random(50, 500, pick)))

Effect_setModeHeartbeat(e) ==
  LET e1 == SetIv([e EXCEPT !.mode = "HEARTBEAT"], 0, 5)
  IN  NormaliseState([e1 EXCEPT !.currentBrightness = 0, !.minBrightness = 0,
                                !.maxBrightness = 255])

Effect_setModePulse(e) ==
  NormaliseState(Effect_setOnInterval([e EXCEPT !.mode = "PULSE"], 500))

Effect_setModeRhythm(e) ==
  Effect_setInterval([e EXCEPT !.mode = "RHYTHM"], <<150, 60, 20, 270>>)

Effect_setModeSmooth(e) ==
  SetIv(SetIv([e EXCEPT !.mode = "SMOOTH"], 0, 25), 1, 15)

(***************************************************************************)
(* The per-mode update routines of Effect.                                 *)
(***************************************************************************)
\* Effect::blink without "previousMillis = currentMillis"
Effect_blink_NoRestart(e, currentMillis) ==
  IF e.state # 0
  THEN IF e.state = 2
       THEN IF GE32(Elapsed(currentMillis, e.previousMillis), Iv(e, 0))
            THEN Notify(digWrite([e EXCEPT !.state = 1], LOW))
            ELSE e
       ELSE IF GE32(Elapsed(currentMillis, e.previousMillis), Iv(e, 1))
            THEN Notify(digWrite([e EXCEPT !.state = 2], HIGH))
            ELSE e
  ELSE e

Effect_blink(e, currentMillis) ==
  IF e.state # 0
  THEN IF e.state = 2
       THEN IF GE32(Elapsed(currentMillis, e.previousMillis), Iv(e, 0))
            THEN Notify([digWrite([e EXCEPT !.state = 1], LOW)
                           EXCEPT !.previousMillis = currentMillis])
            ELSE e
       ELSE IF GE32(Elapsed(currentMillis, e.previousMillis), Iv(e, 1))
            THEN Notify([digWrite([e EXCEPT !.state = 2], HIGH)
                           EXCEPT !.previousMillis = currentMillis])
            ELSE e
  ELSE e

\* Effect::flicker without its test of the state
Effect_flicker_Unguarded(e, currentMillis, pick) ==
  IF GT32(Elapsed(currentMillis, e.previousMillis), Iv(e, 0))
  THEN LET value == (RandomTo(e.maxBrightness, pick) \div 10) * 10 + 5
           e1 == pwmWrite(e, value)
           e2 == SetIv(e1, 0, Random(20, 150, pick))
       IN  [e2 EXCEPT !.previousMillis = currentMillis]
  ELSE e

Effect_flicker(e, currentMillis, pick) ==
  IF e.state = 1 /\ GT32(Elapsed(currentMillis, e.previousMillis), Iv(e, 0))
  THEN LET value == (RandomTo(e.maxBrightness, pick) \div 10) * 10 + 5
           e1 == pwmWrite(e, value)
           e2 == SetIv(e1, 0, Random(20, 150, pick))
       IN  [e2 EXCEPT !.previousMillis = currentMillis]
  ELSE e

\* Effect::fluorescent dimming up only after more than interval[0] has passed
Effect_fluorescent_Late(e, currentMillis, pick) ==
  LET \* state == 1: the random flicker
      a == IF e.state = 1 /\ GT32(Elapsed(currentMillis, e.previousMillisEffect), Iv(e, 1))
           THEN LET a1 == IF e.currentBrightness >= 200
                          THEN SetIv([e EXCEPT !.currentBrightness = Random(0, 5, pick)],
                                     1, Random(400, 2000, pick))
                          ELSE SetIv([e EXCEPT !.currentBrightness = Random(200, 255, pick)],
                                     1, Random(20, 40, pick))
                IN  [pwmWrite(a1, a1.currentBrightness)
                       EXCEPT !.previousMillisEffect = currentMillis]
           ELSE e
      \* state == 1: the tube gets stable
      b == IF a.state = 1 /\ GT32(Elapsed(currentMillis, a.previousMillis), Iv(a, 0))
           THEN LET b1 == SetIv([a EXCEPT !.currentBrightness = 200], 0, 100)
                    b2 == [pwmWrite(b1, 200) EXCEPT !.previousMillis = currentMillis,
                                                    !.state = 2]
                IN  Notify(b2)
           ELSE a
      \* state == 2: dim up to full brightness
      c == IF b.state = 2 /\ GT32(Elapsed(currentMillis, b.previousMillis), Iv(b, 0))
           THEN LET c1 == [b EXCEPT !.previousMillis = currentMillis,
                                    !.currentBrightness = (@ + 1) % TwoTo8]
                    c2 == pwmWrite(c1, c1.currentBrightness)
                IN  IF c2.currentBrightness >= 255
                    THEN Notify([c2 EXCEPT !.state = 3])
                    ELSE c2
           ELSE b
  IN  c

Effect_fluorescent(e, currentMillis, pick) ==
  LET \* state == 1: the random flicker
      a == IF e.state = 1 /\ GT32(Elapsed(currentMillis, e.previousMillisEffect), Iv(e, 1))
           THEN LET a1 == IF e.currentBrightness >= 200
                          THEN SetIv([e EXCEPT !.currentBrightness = Random(0, 5, pick)],
                                     1, Random(400, 2000, pick))
                          ELSE SetIv([e EXCEPT !.currentBrightness = Random(200, 255, pick)],
                                     1, Random(20, 40, pick))
                IN  [pwmWrite(a1, a1.currentBrightness)
                       EXCEPT !.previousMillisEffect = currentMillis]
           ELSE e
      \* state == 1: the tube gets stable
      b == IF a.state = 1 /\ GT32(Elapsed(currentMillis, a.previousMillis), Iv(a, 0))
           THEN LET b1 == SetIv([a EXCEPT !.currentBrightness = 200], 0, 100)
                    b2 == [pwmWrite(b1, 200) EXCEPT !.previousMillis = currentMillis,
                                                    !.state = 2]
                IN  Notify(b2)
           ELSE a
      \* state == 2: dim up to full brightness
      c == IF b.state = 2 /\ GE32(Elapsed(currentMillis, b.previousMillis), Iv(b, 0))
           THEN LET c1 == [b EXCEPT !.previousMillis = currentMillis,
                                    !.currentBrightness = (@ + 1) % TwoTo8]
                    c2 == pwmWrite(c1, c1.currentBrightness)
                IN  IF c2.currentBrightness >= 255
                    THEN Notify([c2 EXCEPT !.state = 3])
                    ELSE c2
           ELSE b
  IN  c

\* Effect::heartbeat counting up while "currentBrightness <= maxBrightness"
Effect_heartbeat_Overshoot(e, currentMillis) ==
  IF e.state # 0 /\ GT32(Elapsed(currentMillis, e.previousMillis), Iv(e, 0))
  THEN LET e1 == [e EXCEPT !.previousMillis = currentMillis]
           e2 == IF e1.state = 1
                 THEN IF e1.currentBrightness <= e1.maxBrightness
                      THEN [e1 EXCEPT !.currentBrightness = (@ + 1) % TwoTo8]
                      ELSE [e1 EXCEPT !.state = 2]
                 ELSE IF e1.currentBrightness > e1.minBrightness
                      THEN [e1 EXCEPT !.currentBrightness = (@ - 1) % TwoTo8]
                      ELSE [e1 EXCEPT !.state = 1]
       IN  pwmWrite(e2, e2.currentBrightness)
  ELSE e

Effect_heartbeat(e, currentMillis) ==
  IF e.state # 0 /\ GT32(Elapsed(currentMillis, e.previousMillis), Iv(e, 0))
  THEN LET e1 == [e EXCEPT !.previousMillis = currentMillis]
           e2 == IF e1.state = 1
                 THEN IF e1.currentBrightness < e1.maxBrightness
                      THEN [e1 EXCEPT !.currentBrightness = (@ + 1) % TwoTo8]
                      ELSE [e1 EXCEPT !.state = 2]
                 ELSE IF e1.currentBrightness > e1.minBrightness
                      THEN [e1 EXCEPT !.currentBrightness = (@ - 1) % TwoTo8]
                      ELSE [e1 EXCEPT !.state = 1]
       IN  pwmWrite(e2, e2.currentBrightness)
  ELSE e

Effect_pulse(e, currentMillis) ==
  IF e.state # 0 /\ e.state = 1
     /\ GE32(Elapsed(currentMillis, e.previousMillis), Iv(e, 0))
  THEN Notify([digWrite(e, LOW) EXCEPT !.state = 0])
  ELSE e

\* Effect::rhythm that starts over one phase late
Effect_rhythm_LateRollover(e, currentMillis) ==
  IF e.state > 0 /\ GT32(Elapsed(currentMillis, e.previousMillis), Iv(e, e.state - 1))
  THEN LET e1 == IF e.state % 2 # 0 THEN digWrite(e, LOW) ELSE digWrite(e, HIGH)
           e2 == [e1 EXCEPT !.state = (@ + 1) % TwoTo8]
           e3 == IF e2.state > e2.lengthOfPattern + 1 THEN [e2 EXCEPT !.state = 1]
                 ELSE e2
       IN  [e3 EXCEPT !.previousMillis = currentMillis]
  ELSE e

Effect_rhythm(e, currentMillis) ==
  IF e.state > 0 /\ GT32(Elapsed(currentMillis, e.previousMillis), Iv(e, e.state - 1))
  THEN LET e1 == IF e.state % 2 # 0 THEN digWrite(e, LOW) ELSE digWrite(e, HIGH)
           e2 == [e1 EXCEPT !.state = (@ + 1) % TwoTo8]
           e3 == IF e2.state > e2.lengthOfPattern THEN [e2 EXCEPT !.state = 1] ELSE e2
       IN  [e3 EXCEPT !.previousMillis = currentMillis]
  ELSE e

\* Effect::smooth that decays without the test "currentBrightness > 0"
Effect_smooth_NoFloor(e, currentMillis) ==
  LET step(d) == [pwmWrite([e EXCEPT !.currentBrightness = (@ + d) % TwoTo8],
                           (e.currentBrightness + d) % TwoTo8)
                    EXCEPT !.previousMillis = currentMillis]
      el == Elapsed(currentMillis, e.previousMillis)
  IN  IF e.state = 1 /\ e.currentBrightness < e.maxBrightness /\ GT32(el, Iv(e, 0))
      THEN step(1)
      ELSE IF e.state = 1 /\ e.currentBrightness > e.maxBrightness /\ GT32(el, Iv(e, 1))
      THEN step(-1)
      ELSE IF e.state = 0 /\ GT32(el, Iv(e, 1))
      THEN step(-1)
      ELSE e

Effect_smooth(e, currentMillis) ==
  LET step(d) == [pwmWrite([e EXCEPT !.currentBrightness = (@ + d) % TwoTo8],
                           (e.currentBrightness + d) % TwoTo8)
                    EXCEPT !.previousMillis = currentMillis]
      el == Elapsed(currentMillis, e.previousMillis)
  IN  IF e.state = 1 /\ e.currentBrightness < e.maxBrightness /\ GT32(el, Iv(e, 0))
      THEN step(1)
      ELSE IF e.state = 1 /\ e.currentBrightness > e.maxBrightness /\ GT32(el, Iv(e, 1))
      THEN step(-1)
      ELSE IF e.state = 0 /\ e.currentBrightness > 0 /\ GT32(el, Iv(e, 1))
      THEN step(-1)
      ELSE e

Effect_update(e, currentMillis, pick) ==
  CASE e.mode = "ONOFF" -> e
    [] e.mode = "BLINK" -> Effect_blink(e, currentMillis)
    [] e.mode = "FLICKER" -> Effect_flicker(e, currentMillis, pick)
    [] e.mode = "FLUORESCENT" -> Effect_fluorescent(e, currentMillis, pick)
    [] e.mode = "HEARTBEAT" -> Effect_heartbeat(e, currentMillis)
    [] e.mode = "PULSE" -> Effect_pulse(e, currentMillis)
    [] e.mode = "RHYTHM" -> Effect_rhythm(e, currentMillis)
    [] e.mode = "SMOOTH" -> Effect_smooth(e, currentMillis)

(***************************************************************************)
(* class LedBase                                                           *)
(***************************************************************************)
LedBase_new ==
  [ state |-> 1, cbStateChange |-> FALSE, obj |-> Dig(LOW),
    writes |-> <<>>, cbs |-> <<>> ]

LedBase_off(o) == NotifyChange([o EXCEPT !.state = 0], o.state)

LedBase_on(o) == NotifyChange([o EXCEPT !.state = 1], o.state)

LedBase_toggle(o) == IF o.state = 0 THEN LedBase_on(o) ELSE LedBase_off(o)

LedBase_setOnStateChange(o, funcPtr) == [o EXCEPT !.cbStateChange = funcPtr]

(***************************************************************************)
(* class Blink : LedBase        state 0 off, 1 Blink-OFF, 2 Blink-ON       *)
(***************************************************************************)
Blink_new(now) ==
  [ state |-> 1, cbStateChange |-> FALSE, obj |-> Dig(LOW),
    writes |-> <<>>, cbs |-> <<>>,
    previousMillis |-> now, onInterval |-> 500, offInterval |-> 500 ]

Blink_setOnInterval(o, newInterval) == [o EXCEPT !.onInterval = newInterval]

Blink_setOffInterval(o, newInterval) == [o EXCEPT !.offInterval = newInterval]

Blink_off(o) == NotifyChange(digWrite([o EXCEPT !.state = 0], LOW), o.state)

Blink_on(o) ==
  NotifyChange(IF o.state = 0 THEN [o EXCEPT !.state = 1] ELSE o, o.state)

Blink_onForce(o, force) ==
  NotifyChange(IF force \/ o.state = 0 THEN [o EXCEPT !.state = 1] ELSE o, o.state)

Blink_toggle(o) == IF o.state = 0 THEN LedBase_on(o) ELSE Blink_off(o)

\* Blink::update that changes phase only after more than the interval
Blink_update_Strict(o, currentMillis) ==
  IF o.state # 0
  THEN IF o.state = 2
       THEN IF GT32(Elapsed(currentMillis, o.previousMillis), o.onInterval)
            THEN Notify([digWrite([o EXCEPT !.state = 1], LOW)
                           EXCEPT !.previousMillis = currentMillis])
            ELSE o
       ELSE IF GT32(Elapsed(currentMillis, o.previousMillis), o.offInterval)
            THEN Notify([digWrite([o EXCEPT !.state = 2], HIGH)
                           EXCEPT !.previousMillis = currentMillis])
            ELSE o
  ELSE o

Blink_update(o, currentMillis) ==
  IF o.state # 0
  THEN IF o.state = 2
       THEN IF GE32(Elapsed(currentMillis, o.previousMillis), o.onInterval)
            THEN Notify([digWrite([o EXCEPT !.state = 1], LOW)
                           EXCEPT !.previousMillis = currentMillis])
            ELSE o
       ELSE IF GE32(Elapsed(currentMillis, o.previousMillis), o.offInterval)
            THEN Notify([digWrite([o EXCEPT !.state = 2], HIGH)
                           EXCEPT !.previousMillis = currentMillis])
            ELSE o
  ELSE o

(***************************************************************************)
(* class Flicker : LedBase      state 0 off, 1 flicker_on                  *)
(***************************************************************************)
Flicker_new(now) ==
  [ state |-> 1, cbStateChange |-> FALSE, obj |-> Dig(LOW),
    writes |-> <<>>, cbs |-> <<>>,
    previousMillis |-> now, interval |-> 100, maxBrightness |-> 255 ]

Flicker_off(o) == NotifyChange(pwmWrite([o EXCEPT !.state = 0], 0), o.state)

Flicker_setMaxBrightness(o, maxBrightness) ==
  [o EXCEPT !.maxBrightness = maxBrightness]

Flicker_toggle(o) == IF o.state = 0 THEN LedBase_on(o) ELSE Flicker_off(o)

Flicker_update(o, currentMillis, pick) ==
  IF o.state = 1 /\ GT32(Elapsed(currentMillis, o.previousMillis), o.interval)
  THEN LET value == (RandomTo(o.maxBrightness, pick) \div 10) * 10 + 5
       IN  [pwmWrite(o, value) EXCEPT !.interval = Random(20, 150, pick),
                                      !.previousMillis = currentMillis]
  ELSE o

(***************************************************************************)
(* class Fluorescent : LedBase  state 0 OFF, 1 START, 2 RUNNING, 3 FULL    *)
(***************************************************************************)
Fluorescent_new ==
  [ state |-> 1, cbStateChange |-> FALSE, obj |-> Dig(LOW),
    writes |-> <<>>, cbs |-> <<>>,
    previousMillis |-> U32(0), previousMillisEffect |-> U32(0),
    interval |-> 10, intervalEffect |-> 10, actual |-> 0,
    startTimeMin |-> 500, startTimeMax |-> 5000 ]

Fluorescent_on(o, millis, pick) ==
  LET o1 == [o EXCEPT !.state = 1, !.previousMillis = millis]
      o2 == [pwmWrite(o1, 2) EXCEPT
               !.intervalEffect = Random(50, 500, pick),
               !.interval = Random(o.startTimeMin, o.startTimeMax, pick)]
  IN  NotifyChange(o2, o.state)

Fluorescent_off(o) ==
  NotifyChange(pwmWrite([o EXCEPT !.state = 0, !.actual = 0], 0), o.state)

Fluorescent_toggle(o, millis, pick) ==
  IF o.state = 0 THEN Fluorescent_on(o, millis, pick) ELSE Fluorescent_off(o)

\* in state 2 the routine reads millis() itself and ignores its argument
Fluorescent_update(o, currentMillis, millis, pick) ==
  LET a == IF o.state = 1
              /\ GT32(Elapsed(currentMillis, o.previousMillisEffect), o.intervalEffect)
           THEN LET a1 == IF o.actual >= 200
                          THEN [o EXCEPT !.actual = Random(0, 5, pick),
                                         !.intervalEffect = Random(400, 2000, pick)]
                          ELSE [o EXCEPT !.actual = Random(200, 255, pick),
                                         !.intervalEffect = Random(20, 40, pick)]
                IN  [pwmWrite(a1, a1.actual) EXCEPT !.previousMillisEffect = currentMillis]
           ELSE o
      b == IF a.state = 1 /\ GT32(Elapsed(currentMillis, a.previousMillis), a.interval)
           THEN Notify([pwmWrite([a EXCEPT !.actual = 200, !.interval = 100], 200)
                          EXCEPT !.previousMillis = currentMillis, !.state = 2])
           ELSE a
      c == IF b.state = 2 /\ GE32(Elapsed(millis, b.previousMillis), b.interval)
           THEN LET c1 == [b EXCEPT !.previousMillis = millis,
                                    !.actual = (@ + 1) % TwoTo8]
                    c2 == pwmWrite(c1, c1.actual)
                IN  IF c2.actual >= 255 THEN Notify([c2 EXCEPT !.state = 3]) ELSE c2
           ELSE b
  IN  c

(***************************************************************************)
(* class Heartbeat : LedBase                                               *)
(***************************************************************************)
Heartbeat_new(now) ==
  [ state |-> 1, cbStateChange |-> FALSE, obj |-> Dig(LOW),
    writes |-> <<>>, cbs |-> <<>>,
    interval |-> 25, previousMillis |-> now, pwm |-> 0, start |-> 0, end |-> 255 ]

Heartbeat_setInterval(o, newInterval) == [o EXCEPT !.interval = newInterval]

Heartbeat_setCurrentBrightness(o, brightness) == [o EXCEPT !.pwm = brightness]

Heartbeat_setMaxBrightness(o, maxBrightness) ==
  IF maxBrightness > o.start THEN [o EXCEPT !.end = maxBrightness] ELSE o

Heartbeat_setMinBrightness(o, minBrightness) ==
  IF minBrightness < o.end THEN [o EXCEPT !.start = minBrightness] ELSE o

Heartbeat_on(o) ==
  NotifyChange([o EXCEPT !.pwm = o.start, !.state = 1], o.state)

Heartbeat_off(o) ==
  NotifyChange([pwmWrite(o, 0) EXCEPT !.pwm = o.start, !.state = 0], o.state)

Heartbeat_toggle(o) == IF o.state = 0 THEN Heartbeat_on(o) ELSE Heartbeat_off(o)

\* pwm is a uint8_t: the sums are taken as int and stored modulo 256
Heartbeat_update(o, currentMillis) ==
  IF GT32(Elapsed(currentMillis, o.previousMillis), o.interval) /\ o.state = 1
  THEN LET p == IF o.pwm % 2 # 0
                THEN IF o.pwm < o.end - 1 THEN o.pwm + 2 ELSE o.pwm - 1
                ELSE IF o.pwm > o.start THEN o.pwm - 2 ELSE o.pwm + 1
           o1 == [o EXCEPT !.previousMillis = currentMillis, !.pwm = p % TwoTo8]
       IN  pwmWrite(o1, o1.pwm)
  ELSE o

(***************************************************************************)
(* class OnOff : LedBase        state 0 off, any other value on            *)
(***************************************************************************)
OnOff_new == LedBase_new

OnOff_off(o) == NotifyChange(digWrite([o EXCEPT !.state = 0], LOW), o.state)

OnOff_on(o) == NotifyChange(digWrite([o EXCEPT !.state = 255], HIGH), o.state)

OnOff_setMaxBrightness(o, newBrightness) ==
  pwmWrite([o EXCEPT !.state = newBrightness], newBrightness)

OnOff_toggle(o) == IF o.state = 0 THEN OnOff_on(o) ELSE OnOff_off(o)

OnOff_update(o, currentMillis) == o

(***************************************************************************)
(* class Pulse : LedBase        state 0 OFF, 1 ON                          *)
(***************************************************************************)
Pulse_new ==
  [ state |-> 0, cbStateChange |-> FALSE, obj |-> Dig(LOW),
    writes |-> <<>>, cbs |-> <<>>,
    previousMillis |-> U32(0), onInterval |-> 500 ]

Pulse_setOnInterval(o, onInterval) == [o EXCEPT !.onInterval = onInterval]

Pulse_off(o, millis) ==
  NotifyChange([digWrite([o EXCEPT !.state = 0], LOW)
                  EXCEPT !.previousMillis = millis], o.state)

\* Pulse::on keeping the timestamp of a pulse that is running
Pulse_on_NoRestart(o, millis) ==
  NotifyChange([digWrite([o EXCEPT !.state = 1], HIGH)
                  EXCEPT !.previousMillis = IF o.state = 0 THEN millis ELSE @],
               o.state)

Pulse_on(o, millis) ==
  NotifyChange([digWrite([o EXCEPT !.state = 1], HIGH)
                  EXCEPT !.previousMillis = millis], o.state)

Pulse_toggle(o, millis) ==
  IF o.state = 0 THEN Pulse_on(o, millis) ELSE Pulse_off(o, millis)

\* Pulse::update with "elapsed > onInterval"
Pulse_update_Late(o, currentMillis) ==
  IF o.state # 0 /\ o.state = 1
     /\ GT32(Elapsed(currentMillis, o.previousMillis), o.onInterval)
  THEN Notify([digWrite(o, LOW) EXCEPT !.state = 0])
  ELSE o

Pulse_update(o, currentMillis) ==
  IF o.state # 0 /\ o.state = 1
     /\ GE32(Elapsed(currentMillis, o.previousMillis), o.onInterval)
  THEN Notify([digWrite(o, LOW) EXCEPT !.state = 0])
  ELSE o

(***************************************************************************)
(* class Rhythm : LedBase       state 0 off, 1 on; current is the phase    *)
(***************************************************************************)
Rhythm_new ==
  [ state |-> 1, cbStateChange |-> FALSE, obj |-> Dig(LOW),
    writes |-> <<>>, cbs |-> <<>>,
    previousMillis |-> U32(0), current |-> 0, lengthOfPattern |-> 4,
    interval |-> <<150, 60, 20, 270, 0, 0, 0, 0>> ]

Rhythm_setInterval(o, iv) == Effect_setInterval(o, iv)

Rhythm_off(o) == NotifyChange(digWrite([o EXCEPT !.state = 0], LOW), o.state)

Rhythm_toggle(o) == IF o.state = 0 THEN LedBase_on(o) ELSE Rhythm_off(o)

Rhythm_update(o, currentMillis) ==
  IF o.state > 0 /\ GT32(Elapsed(currentMillis, o.previousMillis), Iv(o, o.current))
  THEN LET o1 == IF o.current % 2 = 0 THEN digWrite(o, LOW) ELSE digWrite(o, HIGH)
           o2 == [o1 EXCEPT !.current = (@ + 1) % TwoTo8]
           o3 == IF o2.current >= o2.lengthOfPattern THEN [o2 EXCEPT !.current = 0]
                 ELSE o2
       IN  [o3 EXCEPT !.previousMillis = currentMillis]
  ELSE o

(***************************************************************************)
(* class Smooth : LedBase       state 0 off or decreasing, 1 on            *)
(***************************************************************************)
Smooth_new(now) ==
  [ state |-> 1, cbStateChange |-> FALSE, obj |-> Dig(LOW),
    writes |-> <<>>, cbs |-> <<>>,
    previousMillis |-> now, currentBrightness |-> 0, maxBrightness |-> 255,
    onInterval |-> 25, offInterval |-> 15 ]

Smooth_offForced(o) ==
  NotifyChange(pwmWrite([o EXCEPT !.state = 0, !.currentBrightness = 0], 0), o.state)

Smooth_setCurrentBrightness(o, brightness) ==
  pwmWrite([o EXCEPT !.currentBrightness = brightness], brightness)

Smooth_setMaxBrightness(o, newValue) == [o EXCEPT !.maxBrightness = newValue]

Smooth_setOffInterval(o, newValue) == [o EXCEPT !.offInterval = newValue]

Smooth_setOnInterval(o, newValue) == [o EXCEPT !.onInterval = newValue]

\* currentBrightness is a uint16_t
Smooth_update(o, currentMillis) ==
  LET step(d) == [pwmWrite([o EXCEPT !.currentBrightness = (@ + d) % TwoTo16],
                           (o.currentBrightness + d) % TwoTo16)
                    EXCEPT !.previousMillis = currentMillis]
      el == Elapsed(currentMillis, o.previousMillis)
  IN  IF o.state = 1 /\ o.currentBrightness < o.maxBrightness /\ GT32(el, o.onInterval)
      THEN step(1)
      ELSE IF o.state = 1 /\ o.currentBrightness > o.maxBrightness
              /\ GT32(el, o.offInterval)
      THEN step(-1)
      ELSE IF o.state = 0 /\ o.currentBrightness > 0 /\ GT32(el, o.offInterval)
      THEN step(-1)
      ELSE o

(***************************************************************************)
(* Effects on a group of outputs: obj is the tuple of the outputs' levels, *)
(* output i of the C++ code at position i + 1.                             *)
(***************************************************************************)
\* obj.digWrite(i, v)
digWriteAt(o, i, v) ==
  [o EXCEPT !.obj[i + 1] = v, !.writes = Append(@, <<i, v>>)]

\* obj.digWrite(i, LOW) for i = 0 .. n-1, in this order
RECURSIVE allLow(_, _, _)
allLow(o, i, n) == IF i >= n THEN o ELSE allLow(digWriteAt(o, i, LOW), i + 1, n)

(***************************************************************************)
(* class Alternating            state 0 idle, 1 blinkA, 2 blinkB           *)
(***************************************************************************)
Alternating_new(now) ==
  [ state |-> 1, cbStateChange |-> FALSE, obj |-> <<LOW, LOW>>,
    writes |-> <<>>, cbs |-> <<>>,
    previousMillis |-> now, onInterval |-> 500, offInterval |-> 500 ]

Alternating_setOnInterval2(o, onA, onB) ==
  [o EXCEPT !.onInterval = onA, !.offInterval = onB]

Alternating_setOnInterval(o, onA) ==
  [o EXCEPT !.onInterval = onA, !.offInterval = onA]

Alternating_on(o) == NotifyChange([o EXCEPT !.state = 1], o.state)

Alternating_off(o) ==
  NotifyChange(allLow([o EXCEPT !.state = 0], 0, 2), o.state)

Alternating_toggle(o) ==
  IF o.state = 0 THEN Alternating_on(o) ELSE Alternating_off(o)

Alternating_update(o, currentMillis) ==
  IF o.state # 0
  THEN IF o.state = 1 /\ GE32(Elapsed(currentMillis, o.previousMillis), o.onInterval)
       THEN LET o1 == [o EXCEPT !.previousMillis = currentMillis]
                o2 == digWriteAt(digWriteAt(o1, 0, LOW), 1, HIGH)
            IN  Notify([o2 EXCEPT !.state = 2])
       ELSE IF o.state = 2
               /\ GE32(Elapsed(currentMillis, o.previousMillis), o.offInterval)
       THEN LET o1 == [o EXCEPT !.previousMillis = currentMillis]
                o2 == digWriteAt(digWriteAt(o1, 0, HIGH), 1, LOW)
            IN  Notify([o2 EXCEPT !.state = 1])
       ELSE o
  ELSE allLow(o, 0, 2)

(***************************************************************************)
(* class Bounce5                state 0 off, 1 run and on, 2 run but off   *)
(***************************************************************************)
ledPattern == <<0, 1, 2, 3, 4, 3, 2, 1>>

Bounce5_new ==
  [ state |-> 2, cbStateChange |-> FALSE, obj |-> <<LOW, LOW, LOW, LOW, LOW>>,
    writes |-> <<>>, cbs |-> <<>>,
    previousMillis |-> U32(0), onInterval |-> 200, offInterval |-> 20,
    current |-> 0 ]

Bounce5_setOffInterval(o, off) == [o EXCEPT !.offInterval = off]

Bounce5_setOnInterval(o, on) == [o EXCEPT !.onInterval = on]

Bounce5_on(o) == NotifyChange([o EXCEPT !.state = 1], o.state)

Bounce5_off(o) == NotifyChange(allLow([o EXCEPT !.state = 0], 0, 5), o.state)

Bounce5_toggle(o) == IF o.state = 0 THEN Bounce5_on(o) ELSE Bounce5_off(o)

\* Bounce5::update that leaves the lit LED on at the end of its phase
Bounce5_update_NoGap(o, currentMillis) ==
  IF o.state > 0
  THEN LET actualLed == ledPattern[o.current + 1]
       IN  IF o.state = 1
              /\ GE32(Elapsed(currentMillis, o.previousMillis), o.onInterval)
           THEN [o EXCEPT !.previousMillis = currentMillis, !.state = 2]
           ELSE IF o.state = 2
                   /\ GE32(Elapsed(currentMillis, o.previousMillis), o.offInterval)
           THEN LET o1 == digWriteAt([o EXCEPT !.previousMillis = currentMillis],
                                     actualLed, HIGH)
                    o2 == [o1 EXCEPT !.current = (@ + 1) % TwoTo8]
                    o3 == IF o2.current >= Len(ledPattern)
                          THEN [o2 EXCEPT !.current = 0] ELSE o2
                IN  [o3 EXCEPT !.state = 1]
           ELSE o
  ELSE allLow(o, 0, 5)

Bounce5_update(o, currentMillis) ==
  IF o.state > 0
  THEN LET actualLed == ledPattern[o.current + 1]
       IN  IF o.state = 1
              /\ GE32(Elapsed(currentMillis, o.previousMillis), o.onInterval)
           THEN [allLow([o EXCEPT !.previousMillis = currentMillis], 0, 5)
                   EXCEPT !.state = 2]
           ELSE IF o.state = 2
                   /\ GE32(Elapsed(currentMillis, o.previousMillis), o.offInterval)
           THEN LET o1 == digWriteAt([o EXCEPT !.previousMillis = currentMillis],
                                     actualLed, HIGH)
                    o2 == [o1 EXCEPT !.current = (@ + 1) % TwoTo8]
                    o3 == IF o2.current >= Len(ledPattern)
                          THEN [o2 EXCEPT !.current = 0] ELSE o2
                IN  [o3 EXCEPT !.state = 1]
           ELSE o
  ELSE allLow(o, 0, 5)

(***************************************************************************)
(* class Turnsignal             state 0 OFF, 1 LEFT, 2 RIGHT, 3 HAZARD     *)
(***************************************************************************)
Turnsignal_new(now) ==
  [ state |-> 1, cbStateChange |-> FALSE, obj |-> <<LOW, LOW, LOW>>,
    writes |-> <<>>, cbs |-> <<>>,
    previousMillis |-> now, onInterval |-> 500, offInterval |-> 500,
    current |-> 0 ]

Turnsignal_setInterval(o, on, off) ==
  [o EXCEPT !.onInterval = on, !.offInterval = off]

Turnsignal_off(o) ==
  NotifyChange(allLow([o EXCEPT !.state = 0], 0, 3), o.state)

\* Turnsignal::setState without "if (newState != state) off();"
Turnsignal_setState_NoOff(o, newState, millis) ==
  [o EXCEPT !.state = newState,
            !.previousMillis = Elapsed(millis, U32(o.onInterval + o.offInterval)),
            !.current = 0]

Turnsignal_setState(o, newState, millis) ==
  LET o1 == IF newState # o.state THEN Turnsignal_off(o) ELSE o
  IN  [o1 EXCEPT !.state = newState,
                 !.previousMillis = Elapsed(millis, U32(o.onInterval + o.offInterval)),
                 !.current = 0]

Turnsignal_left(o, millis) ==
  NotifyChange(Turnsignal_setState(o, 1, millis), o.state)

Turnsignal_right(o, millis) ==
  NotifyChange(Turnsignal_setState(o, 2, millis), o.state)

Turnsignal_hazard(o, millis) ==
  NotifyChange(Turnsignal_setState(o, 3, millis), o.state)

\* Turnsignal::update that leaves the dashboard indicator out of HAZARD
Turnsignal_update_NoDash(o, currentMillis) ==
  IF o.state # 0
  THEN IF o.current = 0
          /\ GE32(Elapsed(currentMillis, o.previousMillis), o.offInterval)
       THEN LET o1 == [o EXCEPT !.previousMillis = currentMillis, !.current = 1]
            IN  CASE o.state = 1 -> digWriteAt(o1, 0, HIGH)
                  [] o.state = 2 -> digWriteAt(o1, 1, HIGH)
                  [] o.state = 3 -> digWriteAt(digWriteAt(o1, 0, HIGH), 1, HIGH)
                  [] OTHER -> o1
       ELSE IF o.current = 1
               /\ GE32(Elapsed(currentMillis, o.previousMillis), o.onInterval)
       THEN allLow([o EXCEPT !.previousMillis = currentMillis, !.current = 0], 0, 3)
       ELSE o
  ELSE o

Turnsignal_update(o, currentMillis) ==
  IF o.state # 0
  THEN IF o.current = 0
          /\ GE32(Elapsed(currentMillis, o.previousMillis), o.offInterval)
       THEN LET o1 == [o EXCEPT !.previousMillis = currentMillis, !.current = 1]
            IN  CASE o.state = 1 -> digWriteAt(o1, 0, HIGH)
                  [] o.state = 2 -> digWriteAt(o1, 1, HIGH)
                  [] o.state = 3 ->
                       digWriteAt(digWriteAt(digWriteAt(o1, 0, HIGH), 1, HIGH), 2, HIGH)
                  [] OTHER -> o1
       ELSE IF o.current = 1
               /\ GE32(Elapsed(currentMillis, o.previousMillis), o.onInterval)
       THEN allLow([o EXCEPT !.previousMillis = currentMillis, !.current = 0], 0, 3)
       ELSE o
  ELSE o

(***************************************************************************)
(* Spec: one object driven by any sequence of calls.                       *)
(***************************************************************************)
\* values the calls are given
Picks == {0, 1}
IntervalArgs == {1}
MaxBrightnessArgs == {2}
MinBrightnessArgs == {1}
CurrentBrightnessArgs == {254}
PatternArgs == {<<1, 2>>, <<2, 1, 1, 2>>, <<1, 1, 1, 1, 1, 2>>,
                <<1, 1, 1, 1, 1, 1, 1, 2>>}

StartTimes == {U32(0), <<TwoTo16 - 1, TwoTo16 - WrapLead>>}

Classes == {"LedBase", "Effect", "Blink", "Flicker", "Fluorescent", "Heartbeat",
            "OnOff", "Pulse", "Rhythm", "Smooth", "Alternating", "Bounce5",
            "Turnsignal"}

\* the object of class c constructed at wall-clock time now (static storage:
\* members without an initializer are zero)
New(c, now) ==
  CASE c = "LedBase" -> LedBase_new
    [] c = "Effect" -> Effect_new(now)
    [] c = "Blink" -> Blink_new(now)
    [] c = "Flicker" -> Flicker_new(now)
    [] c = "Fluorescent" -> Fluorescent_new
    [] c = "Heartbeat" -> Heartbeat_new(now)
    [] c = "OnOff" -> OnOff_new
    [] c = "Pulse" -> Pulse_new
    [] c = "Rhythm" -> Rhythm_new
    [] c = "Smooth" -> Smooth_new(now)
    [] c = "Alternating" -> Alternating_new(now)
    [] c = "Bounce5" -> Bounce5_new
    [] c = "Turnsignal" -> Turnsignal_new(now)

\* the timestamp a caller hands to update(): by default millis()
Timestamps == {clock}

\* a call starts with empty logs
Fresh(o) == [o EXCEPT !.writes = <<>>, !.cbs = <<>>]

\* the general specification keeps no measurements
NoGhost == <<>>

\* onRun counts the plain on() calls made in a row since the state was 0
Called(op) ==
  h' = [op |-> op, state |-> fx.state,
        onRun |-> IF op # "on" THEN 0
                  ELSE IF fx.state = 0 THEN 1
                  ELSE IF h.onRun >= 1 THEN 2 ELSE 0]

Init ==
  /\ clock \in StartTimes
  /\ ticks = 0
  /\ active \in Classes
  /\ fx = New(active, clock)
  /\ h = [op |-> "new", state |-> fx.state, onRun |-> 0]
  /\ setup = 0
  /\ g = NoGhost

Tick ==
  /\ ticks < MaxTicks
  /\ clock' = Add32(clock, 1)
  /\ ticks' = ticks + 1
  /\ UNCHANGED <<active, fx, h, setup, g>>

\* a call of method op on an object of one of the classes cs
Call(cs, op, after) ==
  /\ active \in cs
  /\ fx' = after
  /\ Called(op)
  /\ UNCHANGED <<clock, ticks, active, setup, g>>

\* a configuration call
Setup(cs, op, after) ==
  /\ active \in cs
  /\ setup < MaxSetup
  /\ setup' = setup + 1
  /\ fx' = after
  /\ Called(op)
  /\ UNCHANGED <<clock, ticks, active, g>>

EffectCall(op, after) == Call({"Effect"}, op, after)

EffectSetup(op, after) == Setup({"Effect"}, op, after)

\* setOnStateChange(funcPtr) of LedBase, Alternating, Bounce5 and Turnsignal
SetOnStateChange ==
  Call(Classes, "setOnStateChange", LedBase_setOnStateChange(Fresh(fx), TRUE))

EffectOn ==
  \E force \in BOOLEAN, pick \in Picks :
    EffectCall(IF force THEN "onForce" ELSE "on",
               Effect_on(Fresh(fx), force, clock, pick))

EffectOff == EffectCall("off", Effect_off(Fresh(fx)))

EffectOffForced == EffectCall("offForced", Effect_offForced(Fresh(fx)))

EffectToggle ==
  \E pick \in Picks :
    EffectCall("toggle", Effect_toggle(Fresh(fx), clock, pick))

EffectUpdate ==
  \E now \in Timestamps, pick \in Picks :
    EffectCall("update", Effect_update(Fresh(fx), now, pick))

EffectSetCurrentBrightness ==
  \E b \in CurrentBrightnessArgs :
    EffectSetup("setCurrentBrightness", Effect_setCurrentBrightness(Fresh(fx), b))

EffectSetMaxBrightness ==
  \E b \in MaxBrightnessArgs :
    EffectSetup("setMaxBrightness", Effect_setMaxBrightness(Fresh(fx), b))

EffectSetOnInterval ==
  \E v \in IntervalArgs :
    EffectSetup("setOnInterval", Effect_setOnInterval(Fresh(fx), v))

EffectSetOffInterval ==
  \E v \in IntervalArgs :
    EffectSetup("setOffInterval", Effect_setOffInterval(Fresh(fx), v))

EffectSetInterval ==
  \E iv \in PatternArgs :
    EffectSetup("setInterval", Effect_setInterval(Fresh(fx), iv))

EffectSetModeOnOff == EffectSetup("setMode", Effect_setModeOnOff(Fresh(fx)))

EffectSetModeBlink == EffectSetup("setMode", Effect_setModeBlink(Fresh(fx)))

EffectSetModeFlicker == EffectSetup("setMode", Effect_setModeFlicker(Fresh(fx)))

EffectSetModeFluorescent ==
  \E pick \in Picks :
    EffectSetup("setMode", Effect_setModeFluorescent(Fresh(fx), pick))

EffectSetModeHeartbeat == EffectSetup("setMode", Effect_setModeHeartbeat(Fresh(fx)))

EffectSetModePulse == EffectSetup("setMode", Effect_setModePulse(Fresh(fx)))

EffectSetModeRhythm == EffectSetup("setMode", Effect_setModeRhythm(Fresh(fx)))

EffectSetModeSmooth == EffectSetup("setMode", Effect_setModeSmooth(Fresh(fx)))

\* the methods a class inherits from LedBase unchanged
LedBaseOn ==
  Call({"LedBase", "Flicker", "Rhythm", "Smooth"}, "on", LedBase_on(Fresh(fx)))

LedBaseOff == Call({"LedBase", "Smooth"}, "off", LedBase_off(Fresh(fx)))

LedBaseToggle == Call({"LedBase", "Smooth"}, "toggle", LedBase_toggle(Fresh(fx)))

BlinkOn == Call({"Blink"}, "on", Blink_on(Fresh(fx)))

BlinkOnForce ==
  \E force \in BOOLEAN :
    Call({"Blink"}, IF force THEN "onForce" ELSE "on", Blink_onForce(Fresh(fx), force))

BlinkOff == Call({"Blink"}, "off", Blink_off(Fresh(fx)))

BlinkToggle == Call({"Blink"}, "toggle", Blink_toggle(Fresh(fx)))

BlinkUpdate ==
  \E now \in Timestamps : Call({"Blink"}, "update", Blink_update(Fresh(fx), now))

BlinkSetOnInterval ==
  \E v \in IntervalArgs :
    Setup({"Blink"}, "setOnInterval", Blink_setOnInterval(Fresh(fx), v))

BlinkSetOffInterval ==
  \E v \in IntervalArgs :
    Setup({"Blink"}, "setOffInterval", Blink_setOffInterval(Fresh(fx), v))

FlickerOff == Call({"Flicker"}, "off", Flicker_off(Fresh(fx)))

FlickerToggle == Call({"Flicker"}, "toggle", Flicker_toggle(Fresh(fx)))

FlickerSetMaxBrightness ==
  \E b \in MaxBrightnessArgs :
    Setup({"Flicker"}, "setMaxBrightness", Flicker_setMaxBrightness(Fresh(fx), b))

FlickerUpdate ==
  \E now \in Timestamps, pick \in Picks :
    Call({"Flicker"}, "update", Flicker_update(Fresh(fx), now, pick))

FluorescentOn ==
  \E pick \in Picks :
    Call({"Fluorescent"}, "on", Fluorescent_on(Fresh(fx), clock, pick))

FluorescentOff == Call({"Fluorescent"}, "off", Fluorescent_off(Fresh(fx)))

FluorescentToggle ==
  \E pick \in Picks :
    Call({"Fluorescent"}, "toggle", Fluorescent_toggle(Fresh(fx), clock, pick))

FluorescentUpdate ==
  \E now \in Timestamps, pick \in Picks :
    Call({"Fluorescent"}, "update", Fluorescent_update(Fresh(fx), now, clock, pick))

HeartbeatOn == Call({"Heartbeat"}, "on", Heartbeat_on(Fresh(fx)))

HeartbeatOff == Call({"Heartbeat"}, "off", Heartbeat_off(Fresh(fx)))

HeartbeatToggle == Call({"Heartbeat"}, "toggle", Heartbeat_toggle(Fresh(fx)))

HeartbeatUpdate ==
  \E now \in Timestamps :
    Call({"Heartbeat"}, "update", Heartbeat_update(Fresh(fx), now))

HeartbeatSetInterval ==
  \E v \in IntervalArgs :
    Setup({"Heartbeat"}, "setInterval", Heartbeat_setInterval(Fresh(fx), v))

HeartbeatSetCurrentBrightness ==
  \E b \in CurrentBrightnessArgs :
    Setup({"Heartbeat"}, "setCurrentBrightness",
          Heartbeat_setCurrentBrightness(Fresh(fx), b))

HeartbeatSetMaxBrightness ==
  \E b \in MaxBrightnessArgs :
    Setup({"Heartbeat"}, "setMaxBrightness", Heartbeat_setMaxBrightness(Fresh(fx), b))

HeartbeatSetMinBrightness ==
  \E b \in MinBrightnessArgs :
    Setup({"Heartbeat"}, "setMinBrightness", Heartbeat_setMinBrightness(Fresh(fx), b))

OnOffOn == Call({"OnOff"}, "on", OnOff_on(Fresh(fx)))

OnOffOff == Call({"OnOff"}, "off", OnOff_off(Fresh(fx)))

OnOffToggle == Call({"OnOff"}, "toggle", OnOff_toggle(Fresh(fx)))

OnOffSetMaxBrightness ==
  \E b \in MaxBrightnessArgs :
    Setup({"OnOff"}, "setMaxBrightness", OnOff_setMaxBrightness(Fresh(fx), b))

OnOffUpdate ==
  \E now \in Timestamps : Call({"OnOff"}, "update", OnOff_update(Fresh(fx), now))

PulseOn == Call({"Pulse"}, "on", Pulse_on(Fresh(fx), clock))

PulseOff == Call({"Pulse"}, "off", Pulse_off(Fresh(fx), clock))

PulseToggle == Call({"Pulse"}, "toggle", Pulse_toggle(Fresh(fx), clock))

PulseUpdate ==
  \E now \in Timestamps : Call({"Pulse"}, "update", Pulse_update(Fresh(fx), now))

PulseSetOnInterval ==
  \E v \in IntervalArgs :
    Setup({"Pulse"}, "setOnInterval", Pulse_setOnInterval(Fresh(fx), v))

RhythmOff == Call({"Rhythm"}, "off", Rhythm_off(Fresh(fx)))

RhythmToggle == Call({"Rhythm"}, "toggle", Rhythm_toggle(Fresh(fx)))

RhythmUpdate ==
  \E now \in Timestamps : Call({"Rhythm"}, "update", Rhythm_update(Fresh(fx), now))

RhythmSetInterval ==
  \E iv \in PatternArgs :
    Setup({"Rhythm"}, "setInterval", Rhythm_setInterval(Fresh(fx), iv))

SmoothOffForced == Call({"Smooth"}, "offForced", Smooth_offForced(Fresh(fx)))

SmoothUpdate ==
  \E now \in Timestamps : Call({"Smooth"}, "update", Smooth_update(Fresh(fx), now))

SmoothSetCurrentBrightness ==
  \E b \in CurrentBrightnessArgs :
    Setup({"Smooth"}, "setCurrentBrightness", Smooth_setCurrentBrightness(Fresh(fx), b))

SmoothSetMaxBrightness ==
  \E b \in MaxBrightnessArgs :
    Setup({"Smooth"}, "setMaxBrightness", Smooth_setMaxBrightness(Fresh(fx), b))

SmoothSetOnInterval ==
  \E v \in IntervalArgs :
    Setup({"Smooth"}, "setOnInterval", Smooth_setOnInterval(Fresh(fx), v))

SmoothSetOffInterval ==
  \E v \in IntervalArgs :
    Setup({"Smooth"}, "setOffInterval", Smooth_setOffInterval(Fresh(fx), v))

AlternatingOn == Call({"Alternating"}, "on", Alternating_on(Fresh(fx)))

AlternatingOff == Call({"Alternating"}, "off", Alternating_off(Fresh(fx)))

AlternatingToggle == Call({"Alternating"}, "toggle", Alternating_toggle(Fresh(fx)))

AlternatingUpdate ==
  \E now \in Timestamps :
    Call({"Alternating"}, "update", Alternating_update(Fresh(fx), now))

AlternatingSetOnInterval ==
  \E v \in IntervalArgs :
    Setup({"Alternating"}, "setOnInterval", Alternating_setOnInterval(Fresh(fx), v))

AlternatingSetOnInterval2 ==
  \E a \in IntervalArgs, b \in IntervalArgs :
    Setup({"Alternating"}, "setOnInterval", Alternating_setOnInterval2(Fresh(fx), a, b))

Bounce5On == Call({"Bounce5"}, "on", Bounce5_on(Fresh(fx)))

Bounce5Off == Call({"Bounce5"}, "off", Bounce5_off(Fresh(fx)))

Bounce5Toggle == Call({"Bounce5"}, "toggle", Bounce5_toggle(Fresh(fx)))

Bounce5Update ==
  \E now \in Timestamps : Call({"Bounce5"}, "update", Bounce5_update(Fresh(fx), now))

Bounce5SetOnInterval ==
  \E v \in IntervalArgs :
    Setup({"Bounce5"}, "setOnInterval", Bounce5_setOnInterval(Fresh(fx), v))

Bounce5SetOffInterval ==
  \E v \in IntervalArgs :
    Setup({"Bounce5"}, "setOffInterval", Bounce5_setOffInterval(Fresh(fx), v))

TurnsignalOff == Call({"Turnsignal"}, "off", Turnsignal_off(Fresh(fx)))

TurnsignalSetState ==
  \E s \in 0..3 :
    Call({"Turnsignal"}, "setState", Turnsignal_setState(Fresh(fx), s, clock))

TurnsignalLeft == Call({"Turnsignal"}, "left", Turnsignal_left(Fresh(fx), clock))

TurnsignalRight == Call({"Turnsignal"}, "right", Turnsignal_right(Fresh(fx), clock))

TurnsignalHazard == Call({"Turnsignal"}, "hazard", Turnsignal_hazard(Fresh(fx), clock))

TurnsignalUpdate ==
  \E now \in Timestamps :
    Call({"Turnsignal"}, "update", Turnsignal_update(Fresh(fx), now))

TurnsignalSetInterval ==
  \E a \in IntervalArgs, b \in IntervalArgs :
    Setup({"Turnsignal"}, "setInterval", Turnsignal_setInterval(Fresh(fx), a, b))

Next ==
  \/ Tick
  \/ SetOnStateChange
  \/ EffectOn
  \/ EffectOff
  \/ EffectOffForced
  \/ EffectToggle
  \/ EffectUpdate
  \/ EffectSetCurrentBrightness
  \/ EffectSetMaxBrightness
  \/ EffectSetOnInterval
  \/ EffectSetOffInterval
  \/ EffectSetInterval
  \/ EffectSetModeOnOff
  \/ EffectSetModeBlink
  \/ EffectSetModeFlicker
  \/ EffectSetModeFluorescent
  \/ EffectSetModeHeartbeat
  \/ EffectSetModePulse
  \/ EffectSetModeRhythm
  \/ EffectSetModeSmooth
  \/ LedBaseOn \/ LedBaseOff \/ LedBaseToggle
  \/ BlinkOn \/ BlinkOnForce \/ BlinkOff \/ BlinkToggle \/ BlinkUpdate
  \/ BlinkSetOnInterval \/ BlinkSetOffInterval
  \/ FlickerOff \/ FlickerToggle \/ FlickerSetMaxBrightness \/ FlickerUpdate
  \/ FluorescentOn \/ FluorescentOff \/ FluorescentToggle \/ FluorescentUpdate
  \/ HeartbeatOn \/ HeartbeatOff \/ HeartbeatToggle \/ HeartbeatUpdate
  \/ HeartbeatSetInterval \/ HeartbeatSetCurrentBrightness
  \/ HeartbeatSetMaxBrightness \/ HeartbeatSetMinBrightness
  \/ OnOffOn \/ OnOffOff \/ OnOffToggle \/ OnOffSetMaxBrightness \/ OnOffUpdate
  \/ PulseOn \/ PulseOff \/ PulseToggle \/ PulseUpdate \/ PulseSetOnInterval
  \/ RhythmOff \/ RhythmToggle \/ RhythmUpdate \/ RhythmSetInterval
  \/ SmoothOffForced \/ SmoothUpdate \/ SmoothSetCurrentBrightness
  \/ SmoothSetMaxBrightness \/ SmoothSetOnInterval \/ SmoothSetOffInterval
  \/ AlternatingOn \/ AlternatingOff \/ AlternatingToggle \/ AlternatingUpdate
  \/ AlternatingSetOnInterval \/ AlternatingSetOnInterval2
  \/ Bounce5On \/ Bounce5Off \/ Bounce5Toggle \/ Bounce5Update
  \/ Bounce5SetOnInterval \/ Bounce5SetOffInterval
  \/ TurnsignalOff \/ TurnsignalSetState \/ TurnsignalLeft \/ TurnsignalRight
  \/ TurnsignalHazard \/ TurnsignalUpdate \/ TurnsignalSetInterval

Spec == Init /\ [][Next]_vars

(***************************************************************************)
(* Claims                                                                  *)
(***************************************************************************)

\* C1: the first on() from the off state invokes the registered callback
\* exactly once, with the new state; the on() that follows it invokes
\* nothing; and no on()/off() call that leaves the state value unchanged
\* invokes the callback.  For every class and every mode of Effect.
C1_IdempotentOnOff ==
  /\ h.onRun = 1 /\ fx.cbStateChange => fx.state # 0 /\ fx.cbs = <<fx.state>>
  /\ h.onRun = 2 => fx.cbs = <<>>
  /\ h.op \in {"on", "onForce", "off"} /\ h.state = fx.state => fx.cbs = <<>>

C1_Witness ==
  /\ active = "Effect" /\ fx.mode = "BLINK"
  /\ h.onRun = 2 /\ fx.cbStateChange /\ fx.cbs = <<>>

\* the calls of Effect that C2 speaks about
C2_Ops == {"on", "onForce", "off", "toggle", "update", "setMode"}

\* C2: with a callback registered, every call of on(), off(), toggle(),
\* setMode*() or update(now) on an Effect invokes the callback exactly once,
\* with the state just assigned, if it changed the value of getState(), and
\* not at all if it did not: callbacks and state changes are counted alike.
C2_CallbackPerChange ==
  active = "Effect" /\ fx.cbStateChange /\ h.op \in C2_Ops =>
    fx.cbs = IF h.state # fx.state THEN <<fx.state>> ELSE <<>>

(***************************************************************************)
(* Polling runs: loop() calls update(now) every g.step ms and nothing      *)
(* else; now is the wall clock.  g keeps what an oscilloscope on the sink  *)
(* and a watch on the object would record.                                 *)
(***************************************************************************)
\* update(now) of the object the run drives
Update(o, now, pick) ==
  CASE active = "Effect" -> Effect_update(o, now, pick)
    [] active = "Blink" -> Blink_update(o, now)
    [] active = "Heartbeat" -> Heartbeat_update(o, now)
    [] active = "Pulse" -> Pulse_update(o, now)
    [] active = "Rhythm" -> Rhythm_update(o, now)

\* the position in the pattern: state of Effect, current of Rhythm
Phase(o) == IF active = "Rhythm" THEN o.current + 1 ELSE o.state

IsHigh(o) == o.obj = Dig(HIGH)

\* whether the brightness of an Effect is at its upper / lower bound
AtMax(o) == active = "Effect" /\ o.currentBrightness = o.maxBrightness
AtMin(o) == active = "Effect" /\ o.currentBrightness = o.minBrightness

\* the interval the object is waiting for
Due(o) ==
  CASE active = "Rhythm" -> Iv(o, o.current)
    [] active = "Blink" -> IF o.state = 2 THEN o.onInterval ELSE o.offInterval
    [] active = "Effect" /\ o.mode = "BLINK" ->
         IF o.state = 2 THEN Iv(o, 0) ELSE Iv(o, 1)
    [] active = "Effect" /\ o.mode = "RHYTHM" -> Iv(o, o.state - 1)
    [] OTHER -> Iv(o, 0)

\* whether update() made its timed transition
Fired(pre, post) ==
  \/ post.previousMillis # pre.previousMillis
  \/ post.state # pre.state
  \/ post.writes # <<>>

\* the measurements before the first poll of a run of `polls` polls, on an
\* object whose previousMillis is `age` ms old (-1: not a time of this run)
Ghost(step, polls, o, age) ==
  [ step |-> step, left |-> polls, polls |-> 0, pre |-> o, now |-> U32(0),
    age |-> age, preAge |-> age,
    rise |-> 0, fall |-> 0,
    startPhase |-> Phase(o), cycleMs |-> 0, highMs |-> 0, cycles |-> 0,
    lastCycleMs |-> 0, lastHighMs |-> 0, sinceMax |-> 0, sinceMin |-> 0 ]

\* the measurements after update(now) took the object from pre to post;
\* the sink keeps its level for the g.step ms until the next poll; a cycle
\* ends when the phase is back at the one the run started in; sinceMax and
\* sinceMin are the time for which the brightness has been off its bounds;
\* age is the time from the taking of previousMillis to the next poll
Measure(pre, post, now) ==
  LET wrapped == Phase(pre) # g.startPhase /\ Phase(post) = g.startPhase
      high == IF IsHigh(post) THEN g.step ELSE 0
  IN  [ g EXCEPT
          !.left = @ - 1, !.polls = @ + 1, !.pre = pre, !.now = now,
          !.preAge = g.age,
          !.age = IF post.previousMillis # pre.previousMillis THEN g.step
                  ELSE IF g.age < 0 THEN g.age ELSE g.age + g.step,
          !.rise = IF ~IsHigh(pre) /\ IsHigh(post) THEN @ + 1 ELSE @,
          !.fall = IF IsHigh(pre) /\ ~IsHigh(post) THEN @ + 1 ELSE @,
          !.cycles = IF wrapped THEN @ + 1 ELSE @,
          !.lastCycleMs = IF wrapped THEN g.cycleMs ELSE @,
          !.lastHighMs = IF wrapped THEN g.highMs ELSE @,
          !.cycleMs = IF wrapped THEN g.step ELSE @ + g.step,
          !.highMs = IF wrapped THEN high ELSE @ + high,
          !.sinceMax = IF AtMax(post) THEN 0 ELSE @ + g.step,
          !.sinceMin = IF AtMin(post) THEN 0 ELSE @ + g.step ]

\* one pass of loop(): update(millis()), then g.step ms go by
Poll ==
  /\ g.left > 0
  /\ \E pick \in Picks :
       /\ fx' = Update(Fresh(fx), clock, pick)
       /\ g' = Measure(fx, fx', clock)
  /\ Called("update")
  /\ clock' = Add32(clock, g.step)
  /\ ticks' = ticks + g.step
  /\ UNCHANGED <<active, setup>>

(***************************************************************************)
(* A blinking run: on for 100 ms, off for 50 ms, update(t) for             *)
(* t = 0, 10, .., 1000.  The object was constructed (and so took its       *)
(* previousMillis) up to MaxLead ms before t = 0 and is on from the start. *)
(***************************************************************************)
\* the timestamp n ms before t = 0
Before(n) == Elapsed(U32(0), U32(n))

BlinkObject(made) ==
  IF active = "Effect"
  THEN Effect_setOffInterval(
         Effect_setOnInterval(Effect_setModeBlink(Effect_new(made)), 100), 50)
  ELSE Blink_setOffInterval(Blink_setOnInterval(Blink_new(made), 100), 50)

InitBlink ==
  /\ clock = U32(0)
  /\ ticks = 0
  /\ active \in {"Effect", "Blink"}
  /\ \E lead \in 0 .. MaxLead :
       /\ fx = BlinkObject(Before(lead))
       /\ g = Ghost(10, 101, fx, lead)
  /\ h = [op |-> "new", state |-> fx.state, onRun |-> 0]
  /\ setup = 0

SpecBlink == InitBlink /\ [][Poll]_vars

\* C3: in the run above the sink goes from LOW to HIGH, and from HIGH to LOW,
\* between 5 and 7 times each, that is floor(1000/150) = 6 give or take 1.
C3_BlinkEdges ==
  g.left = 0 => /\ g.rise \in (1000 \div 150) - 1 .. (1000 \div 150) + 1
                /\ g.fall \in (1000 \div 150) - 1 .. (1000 \div 150) + 1

C3_Witness ==
  /\ g.left = 0 /\ g.polls = 101 /\ clock = U32(1010)
  /\ active = "Effect" /\ fx.mode = "BLINK"
  /\ g.rise = 7 /\ g.fall = 6

(***************************************************************************)
(* A monoflop run: an Effect in PULSE mode or a Pulse object; the sketch   *)
(* calls on() and update() at will, update() with the default millis().    *)
(* g.sinceOn is the time since the latest on(), g.sinceFirst the time      *)
(* since the on() that started the pulse.                                  *)
(***************************************************************************)
MonoObject(made, onInterval, funcPtr) ==
  IF active = "Effect"
  THEN Effect_setOnInterval(
         Effect_setModePulse(Effect_setOnStateChange(Effect_new(made), funcPtr)),
         onInterval)
  ELSE Pulse_setOnInterval(LedBase_setOnStateChange(Pulse_new, funcPtr), onInterval)

\* the configured length of the pulse
MonoInterval(o) == IF active = "Effect" THEN Iv(o, 0) ELSE o.onInterval

InitMono ==
  /\ clock \in StartTimes
  /\ ticks = 0
  /\ active \in {"Effect", "Pulse"}
  /\ \E onInterval \in 1 .. MaxMonoInterval, funcPtr \in BOOLEAN :
       fx = MonoObject(clock, onInterval, funcPtr)
  /\ h = [op |-> "new", state |-> fx.state, onRun |-> 0]
  /\ setup = 0
  /\ g = [armed |-> FALSE, sinceOn |-> 0, sinceFirst |-> 0]

MonoOn ==
  /\ \E pick \in Picks :
       fx' = IF active = "Effect" THEN Effect_on(Fresh(fx), FALSE, clock, pick)
             ELSE Pulse_on(Fresh(fx), clock)
  /\ Called("on")
  /\ g' = [armed |-> TRUE, sinceOn |-> 0,
           sinceFirst |-> IF g.armed /\ fx.state # 0 THEN g.sinceFirst ELSE 0]
  /\ UNCHANGED <<clock, ticks, active, setup>>

MonoUpdate ==
  /\ \E pick \in Picks : fx' = Update(Fresh(fx), clock, pick)
  /\ Called("update")
  /\ UNCHANGED <<clock, ticks, active, setup, g>>

MonoTick ==
  /\ ticks < MaxMonoTicks
  /\ clock' = Add32(clock, 1)
  /\ ticks' = ticks + 1
  /\ h' = [h EXCEPT !.op = "tick"]
  /\ g' = [g EXCEPT !.sinceOn = @ + 1, !.sinceFirst = @ + 1]
  /\ UNCHANGED <<active, fx, setup>>

NextMono == MonoOn \/ MonoUpdate \/ MonoTick

SpecMono == InitMono /\ [][NextMono]_vars

\* C4: once on() was called, the sink is HIGH (and the state 1) as long as
\* less than the on-interval has elapsed since the latest on(); an update()
\* that finds the interval elapsed writes LOW, sets state 0 and reports it;
\* an update() in state 0 writes nothing, and in state 0 the sink is LOW.
C4_Monoflop ==
  g.armed =>
    /\ g.sinceOn < MonoInterval(fx) => IsHigh(fx) /\ fx.state = 1
    /\ h.op = "update" /\ h.state = 1 /\ g.sinceOn >= MonoInterval(fx) =>
         /\ fx.state = 0 /\ fx.writes = <<Dig(LOW)>> /\ fx.obj = Dig(LOW)
         /\ fx.cbStateChange => fx.cbs = <<0>>
    /\ h.op = "update" /\ h.state = 0 => fx.writes = <<>> /\ fx.state = 0
    /\ fx.state = 0 => fx.obj = Dig(LOW)

C4_Witness ==
  /\ g.armed /\ h.op = "update" /\ h.state = 1 /\ fx.state = 0
  /\ g.sinceOn = MonoInterval(fx) /\ MonoInterval(fx) = MaxMonoInterval
  /\ fx.writes = <<Dig(LOW)>> /\ active = "Pulse"

\* C5: an on() during a running pulse invokes no callback and restarts the
\* timer; the pulse ends at the first update() one on-interval or more after
\* the latest on(), however long ago the pulse began.
C5_Retrigger ==
  g.armed =>
    /\ h.op = "on" /\ h.state = 1 =>
         /\ fx.cbs = <<>> /\ fx.previousMillis = clock
         /\ IsHigh(fx) /\ fx.state = 1
    /\ h.op = "update" /\ h.state = 1 =>
         (fx.state = 0 <=> g.sinceOn >= MonoInterval(fx))

C5_Witness ==
  /\ g.armed /\ h.op = "update" /\ fx.state = 1 /\ IsHigh(fx)
  /\ fx.cbStateChange /\ active = "Effect" /\ fx.mode = "PULSE"
  /\ g.sinceFirst >= MonoInterval(fx) /\ g.sinceOn < MonoInterval(fx)

(***************************************************************************)
(* A heartbeat run: an Effect in HEARTBEAT mode, its maximum brightness    *)
(* and its interval set before the first update; the sketch calls on(),    *)
(* off() and update() at will.  g.pre is the object before the last call.  *)
(***************************************************************************)
HeartObject(made, maxBrightness, newInterval) ==
  Effect_setOnInterval(
    Effect_setMaxBrightness(Effect_setModeHeartbeat(Effect_new(made)),
                            maxBrightness),
    newInterval)

InitHeart ==
  /\ clock \in StartTimes
  /\ ticks = 0
  /\ active = "Effect"
  /\ \E b \in 1 .. MaxHeartBrightness, v \in 0 .. MaxHeartInterval :
       fx = HeartObject(clock, b, v)
  /\ h = [op |-> "new", state |-> fx.state, onRun |-> 0]
  /\ setup = 0
  /\ g = [pre |-> fx]

HeartCall(op, after) ==
  /\ fx' = after
  /\ Called(op)
  /\ g' = [pre |-> fx]
  /\ UNCHANGED <<clock, ticks, active, setup>>

HeartOn ==
  \E pick \in Picks : HeartCall("on", Effect_on(Fresh(fx), FALSE, clock, pick))

HeartOff == HeartCall("off", Effect_off(Fresh(fx)))

HeartUpdate ==
  \E pick \in Picks : HeartCall("update", Effect_update(Fresh(fx), clock, pick))

HeartTick ==
  /\ ticks < MaxHeartTicks
  /\ clock' = Add32(clock, 1)
  /\ ticks' = ticks + 1
  /\ UNCHANGED <<active, fx, h, setup, g>>

NextHeart == HeartOn \/ HeartOff \/ HeartUpdate \/ HeartTick

SpecHeart == InitHeart /\ [][NextHeart]_vars

\* C6: in HEARTBEAT mode the brightness of the Effect is always between
\* minBrightness and maxBrightness; every level update() writes to the sink
\* is in that range too, and update() moves the brightness by 1 at most.
C6_HeartbeatRange ==
  /\ fx.currentBrightness \in fx.minBrightness .. fx.maxBrightness
  /\ h.op = "update" =>
       /\ \A i \in 1 .. Len(fx.writes) :
            /\ fx.writes[i].k = "pwm"
            /\ fx.writes[i].v \in fx.minBrightness .. fx.maxBrightness
       /\ fx.currentBrightness - g.pre.currentBrightness \in {-1, 0, 1}

C6_Witness ==
  /\ h.op = "update" /\ fx.mode = "HEARTBEAT"
  /\ fx.maxBrightness = MaxHeartBrightness
  /\ g.pre.state = 1 /\ g.pre.currentBrightness = fx.maxBrightness
  /\ fx.state = 2 /\ fx.writes = <<Pwm(fx.maxBrightness)>>

(***************************************************************************)
(* Runs polled every millisecond: an Effect in BLINK, HEARTBEAT, PULSE or  *)
(* RHYTHM mode, or a Rhythm object, constructed and switched on at the     *)
(* start of the run; the run starts at 0 or at 4294967290, 6 ms before     *)
(* millis() wraps.                                                         *)
(***************************************************************************)
PollStarts == {U32(0), <<TwoTo16 - 1, TwoTo16 - 6>>}

\* the default pattern 150, 60, 20, 270 and a pattern whose first phase is
\* 11 ms long; previousMillis of a Rhythm object has no initializer: it is
\* zero in static storage and anything elsewhere
RhythmObjects(made) ==
  IF active = "Rhythm"
  THEN {Rhythm_new, [Rhythm_new EXCEPT !.previousMillis = made]}
  ELSE {Effect_setModeRhythm(Effect_new(made)),
        Effect_setOnInterval(Effect_setModeRhythm(Effect_new(made)), 11)}

PollObjects(made) ==
  RhythmObjects(made) \cup
  IF active = "Rhythm" THEN {}
  ELSE {HeartObject(made, b, v) :
          b \in 1 .. MaxHeartBrightness, v \in 1 .. MaxHeartInterval + 1}
       \cup {Effect_setOffInterval(
               Effect_setOnInterval(Effect_setModeBlink(Effect_new(made)), 11), 11),
             Effect_setOnInterval(Effect_setModePulse(Effect_new(made)), 11)}

InitPoll ==
  /\ clock \in PollStarts
  /\ ticks = 0
  /\ active \in {"Effect", "Rhythm"}
  /\ \E pick \in Picks, o \in PollObjects(clock) :
       fx = IF active = "Effect" THEN Effect_on(o, FALSE, clock, pick)
            ELSE LedBase_on(o)
  /\ h = [op |-> "on", state |-> fx.state, onRun |-> 0]
  /\ setup = 0
  /\ g = Ghost(1, MaxPolls, fx, IF fx.previousMillis = clock THEN 0 ELSE -1)

SpecPoll == InitPoll /\ [][Poll]_vars

\* C7: in a heartbeat polled every millisecond no stretch of time longer
\* than 2 * (maxBrightness - minBrightness) * interval ms goes by without
\* the brightness being at maxBrightness, nor without it being at
\* minBrightness.
C7_HeartbeatWindow ==
  active = "Effect" /\ fx.mode = "HEARTBEAT" =>
    LET window == 2 * (fx.maxBrightness - fx.minBrightness) * Iv(fx, 0)
    IN  g.sinceMax <= window /\ g.sinceMin <= window

\* C8: with the pattern 150, 60, 20, 270 polled every millisecond, every
\* cycle (from one return of the phase to its starting value to the next)
\* takes 500 ms, and the sink is HIGH for 150 + 20 = 170 ms of it.
C8_RhythmCycle ==
  /\ active = "Rhythm" \/ fx.mode = "RHYTHM"
  /\ Iv(fx, 0) = 150 /\ g.cycles >= 2
  => /\ g.lastCycleMs = Iv(fx, 0) + Iv(fx, 1) + Iv(fx, 2) + Iv(fx, 3)
     /\ g.lastHighMs = Iv(fx, 0) + Iv(fx, 2)

\* whether millis() wrapped between the taking of previousMillis and now
WrappedSince(now, previous) == now[1] < previous[1]

\* C9: at every update() the elapsed time the routine computes is the true
\* time since previousMillis was taken, also when millis() wrapped in
\* between (previous = 4294967290, now = 5: 11 ms); and across the wrap an
\* object that is on makes its timed transition exactly when the awaited
\* interval is at most that time.
C9_WrapElapsed ==
  g.polls > 0 /\ g.preAge >= 0 =>
    /\ Elapsed(g.now, g.pre.previousMillis) = U32(g.preAge)
    /\ g.pre.state # 0 /\ WrappedSince(g.now, g.pre.previousMillis) =>
         (Fired(g.pre, fx) <=> Due(g.pre) <= g.preAge)

\* the arithmetic half of C9 alone
WrapElapsedExact ==
  g.polls > 0 /\ g.preAge >= 0 =>
    Elapsed(g.now, g.pre.previousMillis) = U32(g.preAge)

\* C10: in every mode of Effect the update(now) for which
\* now - previousMillis equals the awaited interval makes the transition.
C10_FiresOnEquality ==
  /\ active = "Effect" /\ g.polls > 0 /\ g.pre.state # 0
  /\ Elapsed(g.now, g.pre.previousMillis) = U32(Due(g.pre))
  => Fired(g.pre, fx)

(***************************************************************************)
(* class Trafficlight   state 0 OFF, 1 RED, 2 REDYELLOW, 3 GREEN,          *)
(* 4 YELLOW, 5 YELLOWBLINK, 6 GREENBLINK.  cbs logs both callbacks, as     *)
(* <<"state", value>> and <<"sequence", value>>; ret is the code the last  *)
(* call returned.  Entries 4 .. 7 of sequence[] have no initializer: they  *)
(* are zero in static storage.                                             *)
(***************************************************************************)
OFF == 0
RED == 1
REDYELLOW == 2
GREEN == 3
YELLOW == 4
YELLOWBLINK == 5
GREENBLINK == 6

Entry(state, interval) == [state |-> state, interval |-> interval]

Trafficlight_new(now) ==
  [ state |-> 5, mode |-> "AUTOMATIC",
    cbStateChange |-> FALSE, cbSequenceChange |-> FALSE,
    obj |-> <<LOW, LOW, LOW>>, writes |-> <<>>, cbs |-> <<>>, ret |-> 0,
    previousMillis |-> now, previousMillisBlink |-> now, onInterval |-> 500,
    currentBlink |-> 0, currentSequence |-> 0, noOfSequence |-> 4,
    sequence |-> <<Entry(RED, 5000), Entry(REDYELLOW, 3000), Entry(GREEN, 2500),
                   Entry(YELLOW, 3000), Entry(0, 0), Entry(0, 0), Entry(0, 0),
                   Entry(0, 0)>> ]

Trafficlight_setInterval(o, on) == [o EXCEPT !.onInterval = on]

\* maxSequence = sizeof(sequence) / sizeof(sequence[0]) = 8
Trafficlight_setSequenceIndex(o, index, newState, newInterval) ==
  IF index < Len(o.sequence)
  THEN [o EXCEPT !.sequence[index + 1] = Entry(newState, newInterval), !.ret = 0]
  ELSE [o EXCEPT !.ret = 1]

\* Trafficlight::setSequenceMax that takes a count of 0
Trafficlight_setSequenceMax_ZeroOk(o, newMax) ==
  IF newMax <= Len(o.sequence)
  THEN [o EXCEPT !.noOfSequence = newMax, !.ret = 0]
  ELSE [o EXCEPT !.ret = 1]

Trafficlight_setSequenceMax(o, newMax) ==
  IF newMax <= Len(o.sequence) /\ newMax > 0
  THEN [o EXCEPT !.noOfSequence = newMax, !.ret = 0]
  ELSE [o EXCEPT !.ret = 1]

Trafficlight_off(o) == allLow([o EXCEPT !.state = 0], 0, 3)

Trafficlight_setMode(o, newMode) == [o EXCEPT !.mode = newMode]

Trafficlight_setOnStateChange(o, funcPtr) == [o EXCEPT !.cbStateChange = funcPtr]

Trafficlight_setOnSequenceChange(o, funcPtr) ==
  [o EXCEPT !.cbSequenceChange = funcPtr]

\* the three digWrite of a face: red, yellow, green
Face(o, r, y, gr) == digWriteAt(digWriteAt(digWriteAt(o, 0, r), 1, y), 2, gr)

\* Trafficlight::setState that clears the lamps for a face without a case
Trafficlight_setState_BlinkClears(o, newState) ==
  LET o1 == CASE newState = OFF -> Face(o, LOW, LOW, LOW)
              [] newState = RED -> Face(o, HIGH, LOW, LOW)
              [] newState = YELLOW -> Face(o, LOW, HIGH, LOW)
              [] newState = REDYELLOW -> Face(o, HIGH, HIGH, LOW)
              [] newState = GREEN -> Face(o, LOW, LOW, HIGH)
              [] OTHER -> Face(o, LOW, LOW, LOW)
      o2 == IF o1.cbStateChange /\ o1.state # newState
            THEN [o1 EXCEPT !.cbs = Append(@, <<"state", newState>>)] ELSE o1
  IN  [o2 EXCEPT !.state = newState]

Trafficlight_setState(o, newState) ==
  LET o1 == CASE newState = OFF -> Face(o, LOW, LOW, LOW)
              [] newState = RED -> Face(o, HIGH, LOW, LOW)
              [] newState = YELLOW -> Face(o, LOW, HIGH, LOW)
              [] newState = REDYELLOW -> Face(o, HIGH, HIGH, LOW)
              [] newState = GREEN -> Face(o, LOW, LOW, HIGH)
              [] OTHER -> o
      o2 == IF o1.cbStateChange /\ o1.state # newState
            THEN [o1 EXCEPT !.cbs = Append(@, <<"state", newState>>)] ELSE o1
  IN  [o2 EXCEPT !.state = newState]

\* the blinking of output pin while the state is face
Trafficlight_blink(o, currentMillis, face, pin) ==
  IF o.state = face
     /\ GE32(Elapsed(currentMillis, o.previousMillisBlink), o.onInterval)
  THEN LET o1 == [o EXCEPT !.previousMillisBlink = currentMillis]
       IN  IF o1.currentBlink # 0
           THEN [digWriteAt(o1, pin, LOW) EXCEPT !.currentBlink = 0]
           ELSE [digWriteAt(o1, pin, HIGH) EXCEPT !.currentBlink = 1]
  ELSE o

\* the sequence advance of update()
\* the sequence block of Trafficlight::update reporting the new index after
\* it has set the state
Trafficlight_advance_StateFirst(o, currentMillis) ==
  IF o.mode # "MANUAL"
     /\ GE32(Elapsed(currentMillis, o.previousMillis),
             o.sequence[o.currentSequence + 1].interval)
  THEN LET next == IF (o.currentSequence + 1) % TwoTo8 >= o.noOfSequence THEN 0
                   ELSE (o.currentSequence + 1) % TwoTo8
           o1 == [o EXCEPT !.previousMillis = currentMillis,
                           !.currentSequence = next]
           o2 == Trafficlight_setState(o1, o1.sequence[next + 1].state)
       IN  IF o2.cbSequenceChange
           THEN [o2 EXCEPT !.cbs = Append(@, <<"sequence", next>>)]
           ELSE o2
  ELSE o

\* the sequence block of Trafficlight::update without "mode != Mode::MANUAL"
Trafficlight_advance_AnyMode(o, currentMillis) ==
  IF GE32(Elapsed(currentMillis, o.previousMillis),
          o.sequence[o.currentSequence + 1].interval)
  THEN LET next == IF (o.currentSequence + 1) % TwoTo8 >= o.noOfSequence THEN 0
                   ELSE (o.currentSequence + 1) % TwoTo8
           o1 == [o EXCEPT !.previousMillis = currentMillis,
                           !.currentSequence = next]
           o2 == IF o1.cbSequenceChange
                 THEN [o1 EXCEPT !.cbs = Append(@, <<"sequence", next>>)]
                 ELSE o1
       IN  Trafficlight_setState(o2, o2.sequence[next + 1].state)
  ELSE o

Trafficlight_advance(o, currentMillis) ==
  IF o.mode # "MANUAL"
     /\ GE32(Elapsed(currentMillis, o.previousMillis),
             o.sequence[o.currentSequence + 1].interval)
  THEN LET next == IF (o.currentSequence + 1) % TwoTo8 >= o.noOfSequence THEN 0
                   ELSE (o.currentSequence + 1) % TwoTo8
           o1 == [o EXCEPT !.previousMillis = currentMillis,
                           !.currentSequence = next]
           o2 == IF o1.cbSequenceChange
                 THEN [o1 EXCEPT !.cbs = Append(@, <<"sequence", next>>)]
                 ELSE o1
       IN  Trafficlight_setState(o2, o2.sequence[next + 1].state)
  ELSE o

Trafficlight_update(o, currentMillis) ==
  Trafficlight_blink(
    Trafficlight_blink(Trafficlight_advance(o, currentMillis), currentMillis,
                       GREENBLINK, 2),
    currentMillis, YELLOWBLINK, 1)

(***************************************************************************)
(* A traffic light left alone: constructed with its default sequence, in   *)
(* AUTOMATIC mode, and polled with update(millis()) every g.step ms.       *)
(* g.seen lists the faces shown since construction, g.holds for how long   *)
(* each of them was shown (the last one: so far).                          *)
(***************************************************************************)
TrafficSteps == {1, 100, 700}

InitTrafficPoll ==
  /\ clock \in PollStarts
  /\ ticks = 0
  /\ active = "Trafficlight"
  /\ fx = Trafficlight_new(clock)
  /\ h = [op |-> "new", state |-> fx.state, onRun |-> 0]
  /\ setup = 0
  /\ \E step \in TrafficSteps :
       g = [step |-> step, seen |-> <<fx.state>>, holds |-> <<0>>]

TrafficPoll ==
  /\ ticks < MaxTrafficMs
  /\ fx' = Trafficlight_update(Fresh(fx), clock)
  /\ Called("update")
  /\ g' = IF fx'.state = fx.state
          THEN [g EXCEPT !.holds[Len(g.holds)] = @ + g.step]
          ELSE [g EXCEPT !.seen = Append(@, fx'.state),
                         !.holds = Append(@, g.step)]
  /\ clock' = Add32(clock, g.step)
  /\ ticks' = ticks + g.step
  /\ UNCHANGED <<active, setup>>

SpecTrafficPoll == InitTrafficPoll /\ [][TrafficPoll]_vars

\* the face and the duration of entry k of the sequence, k counted from 1
\* and running round the configured entries
FaceAt(o, k) == o.sequence[((k - 1) % o.noOfSequence) + 1].state
DurationAt(o, k) == o.sequence[((k - 1) % o.noOfSequence) + 1].interval

\* C11: from construction on the faces shown are RED, RED+YELLOW, GREEN,
\* YELLOW, RED, ... in this order, and each face that has been replaced was
\* shown for its configured duration, give or take one poll step.
C11_SequenceOrder ==
  \A k \in 1 .. Len(g.seen) :
    /\ g.seen[k] = FaceAt(fx, k)
    /\ k < Len(g.seen) =>
         g.holds[k] \in DurationAt(fx, k) - g.step .. DurationAt(fx, k) + g.step

\* what holds instead: the face shown first is YELLOWBLINK, for the
\* duration of entry 0; the order and the durations are right after it
TrafficOrderAfterFirst ==
  \A k \in 1 .. Len(g.seen) :
    /\ g.seen[k] = IF k = 1 THEN YELLOWBLINK ELSE FaceAt(fx, k)
    /\ k < Len(g.seen) =>
         g.holds[k] \in DurationAt(fx, k) .. DurationAt(fx, k) + g.step - 1

(***************************************************************************)
(* A traffic light driven by any sequence of calls; update() is called     *)
(* with the default millis().  The light starts with its default sequence  *)
(* or with a short one (RED, GREENBLINK, GREENBLINK, 1 ms each), and with or  *)
(* without its two callbacks.  h keeps the arguments of the last call and  *)
(* whether off() was the last call but for update().                       *)
(***************************************************************************)
ShortSequence(o) ==
  Trafficlight_setInterval(
    Trafficlight_setSequenceMax(
      Trafficlight_setSequenceIndex(
        Trafficlight_setSequenceIndex(
          Trafficlight_setSequenceIndex(o, 0, RED, 1), 1, GREENBLINK, 1),
        2, GREENBLINK, 1),
      3),
    1)

TrafficObjects(made) ==
  {Trafficlight_setOnSequenceChange(Trafficlight_setOnStateChange(o, cb), cb) :
     o \in {Trafficlight_new(made), ShortSequence(Trafficlight_new(made))},
     cb \in BOOLEAN}

IndexArgs == {1, 8, 255}
SequenceMaxArgs == {0, 2, 9}
FaceArgs == {OFF, GREENBLINK}
ColourArgs == {GREEN, RED}

InitTraffic ==
  /\ clock \in StartTimes
  /\ ticks = 0
  /\ active = "Trafficlight"
  /\ fx \in TrafficObjects(clock)
  /\ h = [op |-> "new", state |-> fx.state, args |-> <<>>, offRun |-> FALSE]
  /\ setup = 0
  /\ g = NoGhost

TrafficCall(op, args, after) ==
  /\ fx' = after
  /\ h' = [op |-> op, state |-> fx.state, args |-> args,
           offRun |-> IF op = "update" THEN h.offRun ELSE op = "off"]
  /\ UNCHANGED <<clock, ticks, active, setup, g>>

TrafficSetup(op, args, after) ==
  /\ setup < MaxTrafficSetup
  /\ setup' = setup + 1
  /\ fx' = after
  /\ h' = [op |-> op, state |-> fx.state, args |-> args, offRun |-> FALSE]
  /\ UNCHANGED <<clock, ticks, active, g>>

TrafficSetState ==
  \E newState \in FaceArgs :
    TrafficCall("setState", <<newState>>, Trafficlight_setState(Fresh(fx), newState))

\* green(), greenBlink(), red(), yellow(), yellowBlink()
TrafficColour ==
  \E face \in ColourArgs :
    TrafficCall("colour", <<face>>, Trafficlight_setState(Fresh(fx), face))

TrafficOff == TrafficCall("off", <<>>, Trafficlight_off(Fresh(fx)))

TrafficUpdate ==
  TrafficCall("update", <<clock>>, Trafficlight_update(Fresh(fx), clock))

TrafficSetMode ==
  \E newMode \in {"MANUAL"} :
    TrafficSetup("setMode", <<newMode>>, Trafficlight_setMode(Fresh(fx), newMode))

TrafficSetSequenceIndex ==
  \E index \in IndexArgs, newState \in {YELLOWBLINK}, newInterval \in IntervalArgs :
    TrafficSetup("setSequenceIndex", <<index, newState, newInterval>>,
                 Trafficlight_setSequenceIndex(Fresh(fx), index, newState, newInterval))

TrafficSetSequenceMax ==
  \E newMax \in SequenceMaxArgs :
    TrafficSetup("setSequenceMax", <<newMax>>,
                 Trafficlight_setSequenceMax(Fresh(fx), newMax))

TrafficTick ==
  /\ ticks < MaxTrafficTicks
  /\ clock' = Add32(clock, 1)
  /\ ticks' = ticks + 1
  /\ h' = [h EXCEPT !.op = "tick"]
  /\ UNCHANGED <<active, fx, setup, g>>

NextTraffic ==
  \/ TrafficSetState
  \/ TrafficColour
  \/ TrafficOff
  \/ TrafficUpdate
  \/ TrafficSetMode
  \/ TrafficSetSequenceIndex
  \/ TrafficSetSequenceMax
  \/ TrafficTick

SpecTraffic == InitTraffic /\ [][NextTraffic]_vars


\* the object but for the return value of the call
Kept(o) == [o EXCEPT !.ret = 0]

\* C12: setSequenceIndex() with an index of 8 or more and setSequenceMax()
\* with 0 or more than 8 return non-zero and change nothing of the object;
\* in range they return 0 and change the addressed entry, or the count, only.
C12_RangeChecked ==
  [][ /\ h'.op = "setSequenceIndex" =>
           IF h'.args[1] >= 8
           THEN fx'.ret # 0 /\ Kept(fx') = Kept(Fresh(fx))
           ELSE /\ fx'.ret = 0
                /\ fx' = [Kept(Fresh(fx)) EXCEPT
                            !.sequence[h'.args[1] + 1] = Entry(h'.args[2], h'.args[3])]
      /\ h'.op = "setSequenceMax" =>
           IF h'.args[1] = 0 \/ h'.args[1] > 8
           THEN fx'.ret # 0 /\ Kept(fx') = Kept(Fresh(fx))
           ELSE /\ fx'.ret = 0
                /\ fx' = [Kept(Fresh(fx)) EXCEPT !.noOfSequence = h'.args[1]]
    ]_vars

\* both setters refused a call, on a light that runs
C12_Witness ==
  /\ h.op \in {"setSequenceIndex", "setSequenceMax"}
  /\ h.args[1] \in {0, 8}
  /\ fx.ret # 0
  /\ fx.currentSequence > 0


(***************************************************************************)
(* Claims on the general run, continued                                    *)
(***************************************************************************)
\* C13: an Effect in a mode other than SMOOTH that is off (state 0) is left
\* as it is by update(now), for any timestamp: no write to the sink, no
\* change of state, brightness or timers, no callback.
C13_OffStaysOff ==
  [][ /\ h'.op = "update" /\ clock' = clock
      /\ active = "Effect" /\ fx.mode # "SMOOTH" /\ fx.state = 0
      => fx' = Fresh(fx) ]_vars

\* an update of a switched-off flicker whose interval has elapsed
C13_Witness ==
  /\ active = "Effect" /\ fx.mode = "FLICKER"
  /\ h.op = "update" /\ h.state = 0 /\ fx.state = 0
  /\ GT32(Elapsed(clock, fx.previousMillis), Iv(fx, 0))
  /\ fx.writes = <<>> /\ fx.cbs = <<>>


\* C15: each left(), right(), hazard() and off() of a Turnsignal invokes the
\* callback at most once, with the state it selected, and only if the state
\* after the call differs from the state before it.
C15_OneCallbackPerSelection ==
  active = "Turnsignal" /\ h.op \in {"left", "right", "hazard", "off"} =>
    /\ Len(fx.cbs) <= 1
    /\ fx.cbs # <<>> => fx.cbs = <<fx.state>> /\ h.state # fx.state


(***************************************************************************)
(* Claims on the traffic light                                             *)
(***************************************************************************)
\* the callbacks of one kind that the call in progress has invoked
StateCalls(o) == SelectSeq(o.cbs, LAMBDA c : c[1] = "state")
SequenceCalls(o) == SelectSeq(o.cbs, LAMBDA c : c[1] = "sequence")

\* C14: after off(), and for as long as update() is the only call, the
\* state is OFF and the three outputs are LOW.
C14_OffUntilSelected ==
  h.offRun => fx.state = OFF /\ fx.obj = <<LOW, LOW, LOW>>

\* C16: with a callback registered, each call of setState(), of a colour
\* shortcut, of off() and of update() invokes cbStateChange once with the
\* new state if it changed the state, and not at all if it did not.
C16_StateCallbackPerChange ==
  fx.cbStateChange /\ h.op \in {"setState", "colour", "off", "update"} =>
    StateCalls(fx) = IF h.state # fx.state THEN <<<<"state", fx.state>>>> ELSE <<>>

\* C17: with a sequence callback registered, an update() that advances the
\* sequence invokes it once, first of all callbacks, with the new index,
\* which is the next index or 0 after the last; no other call, no update
\* that does not advance and no call in MANUAL mode invokes it.
C17_SequenceCallback ==
  [][ clock' = clock =>
      LET advanced == /\ h'.op = "update"
                      /\ \/ fx'.previousMillis # fx.previousMillis
                         \/ fx'.currentSequence # fx.currentSequence
      IN  /\ advanced =>
                fx'.currentSequence = IF fx.currentSequence + 1 >= fx.noOfSequence
                                      THEN 0 ELSE fx.currentSequence + 1
          /\ advanced /\ fx.cbSequenceChange =>
                /\ SequenceCalls(fx') = <<<<"sequence", fx'.currentSequence>>>>
                /\ fx'.cbs[1] = <<"sequence", fx'.currentSequence>>
          /\ ~advanced \/ fx.mode = "MANUAL" \/ ~fx.cbSequenceChange =>
                SequenceCalls(fx') = <<>>
    ]_vars

\* the advance from the last entry to entry 0, which changes the face
C17_Witness ==
  /\ h.op = "update"
  /\ fx.currentSequence = 0
  /\ fx.cbs = <<<<"sequence", 0>>, <<"state", RED>>>>


(***************************************************************************)
(* Claims on the group effects                                             *)
(***************************************************************************)
\* C18: an update(now) of an Alternating, Bounce5 or Turnsignal at a time
\* when neither its on-interval nor its off-interval has elapsed does
\* nothing: no write, no change of the object, no callback, on or off.
C18_IdleUpdate ==
  [][ /\ h'.op = "update" /\ clock' = clock
      /\ active \in {"Alternating", "Bounce5", "Turnsignal"}
      /\ ~GE32(Elapsed(clock, fx.previousMillis), fx.onInterval)
      /\ ~GE32(Elapsed(clock, fx.previousMillis), fx.offInterval)
      => fx' = Fresh(fx) ]_vars


(***************************************************************************)
(* A fluorescent tube switched on from off and then polled with            *)
(* update(millis()) every g.step ms, with any random draws.  g keeps the   *)
(* warm-up delay that on() drew, the time of the latest poll since on(),   *)
(* the callbacks of all polls and the time spent in state 2.               *)
(***************************************************************************)
FluorSteps == {1, 10, 100}

FluorObjects(made) ==
  {Effect_off(Effect_setModeFluorescent(Effect_setOnStateChange(Effect_new(made), cb),
                                        pick)) :
     cb \in BOOLEAN, pick \in Picks}

InitFluor ==
  /\ clock \in PollStarts
  /\ ticks = 0
  /\ active = "Effect"
  /\ \E pick \in Picks, o \in FluorObjects(clock) :
       fx = Effect_on(Fresh(o), FALSE, clock, pick)
  /\ h = [op |-> "on", state |-> 0, onRun |-> 1]
  /\ setup = 0
  /\ \E step \in FluorSteps :
       g = [step |-> step, warmup |-> Iv(fx, 0), at |-> 0, calls |-> <<>>,
            in2 |-> -1]

FluorPoll ==
  /\ ticks <= MaxFluorMs
  /\ \E pick \in Picks : fx' = Effect_update(Fresh(fx), clock, pick)
  /\ Called("update")
  /\ g' = [g EXCEPT !.at = ticks,
                    !.calls = @ \o fx'.cbs,
                    !.in2 = IF fx'.state < 2 THEN -1
                            ELSE IF fx.state < 2 THEN 0 ELSE @ + g.step]
  /\ clock' = Add32(clock, g.step)
  /\ ticks' = ticks + g.step
  /\ UNCHANGED <<active, setup>>

SpecFluor == InitFluor /\ [][FluorPoll]_vars

\* the time from one brightness step to the next at a poll every step ms
RampPeriod(step) == ((100 + step - 1) \div step) * step

TwinSkews == {1, 2}

\* a pulse of 2 ms, or a turn signal of 1 ms on and 1 ms off, with callback
TwinObject(made) ==
  IF active = "Effect"
  THEN Effect_setOnInterval(
         Effect_setModePulse(Effect_setOnStateChange(Effect_new(made), TRUE)), 2)
  ELSE Turnsignal_setInterval(LedBase_setOnStateChange(Turnsignal_new(made), TRUE), 1, 1)

\* millis() as the second run reads it
TwinMillis == Add32(clock, g.skew)

InitTwin ==
  /\ clock \in StartTimes
  /\ ticks = 0
  /\ active \in {"Effect", "Turnsignal"}
  /\ fx = TwinObject(clock)
  /\ h = [op |-> "new", state |-> fx.state, onRun |-> 0]
  /\ setup = 0
  /\ \E skew \in TwinSkews :
       g = [skew |-> skew, twin |-> TwinObject(Add32(clock, skew)),
            now |-> U32(0), stamps |-> 0]

\* the same call in both runs
TwinCall(cs, op, after, twinAfter) ==
  /\ active \in cs
  /\ fx' = after
  /\ g' = [g EXCEPT !.twin = twinAfter]
  /\ Called(op)
  /\ UNCHANGED <<clock, ticks, active, setup>>

TwinOn ==
  \E pick \in Picks :
    TwinCall({"Effect"}, "on", Effect_on(Fresh(fx), FALSE, clock, pick),
             Effect_on(Fresh(g.twin), FALSE, TwinMillis, pick))

TwinOff ==
  \/ TwinCall({"Effect"}, "off", Effect_off(Fresh(fx)), Effect_off(Fresh(g.twin)))
  \/ TwinCall({"Turnsignal"}, "off", Turnsignal_off(Fresh(fx)),
              Turnsignal_off(Fresh(g.twin)))

TwinSetState ==
  \E s \in 0 .. 3 :
    TwinCall({"Turnsignal"}, "setState", Turnsignal_setState(Fresh(fx), s, clock),
             Turnsignal_setState(Fresh(g.twin), s, TwinMillis))

TwinUpdate ==
  \/ \E pick \in Picks :
       TwinCall({"Effect"}, "update", Effect_update(Fresh(fx), g.now, pick),
                Effect_update(Fresh(g.twin), g.now, pick))
  \/ TwinCall({"Turnsignal"}, "update", Turnsignal_update(Fresh(fx), g.now),
              Turnsignal_update(Fresh(g.twin), g.now))

\* the caller steps the time it injects
TwinStamp ==
  /\ g.stamps < MaxStamps
  /\ g' = [g EXCEPT !.now = Add32(@, 1), !.stamps = @ + 1]
  /\ UNCHANGED <<clock, ticks, active, fx, h, setup>>

TwinTick ==
  /\ ticks < MaxTwinTicks
  /\ clock' = Add32(clock, 1)
  /\ ticks' = ticks + 1
  /\ UNCHANGED <<active, fx, h, setup, g>>

NextTwin ==
  \/ TwinOn
  \/ TwinOff
  \/ TwinSetState
  \/ TwinUpdate
  \/ TwinStamp
  \/ TwinTick

SpecTwin == InitTwin /\ [][NextTwin]_vars

\* C20: two runs of the same on(), off(), setState() and update(now) calls
\* with the same injected timestamps and random draws are in the same state
\* and have made the same sink writes and callbacks, whatever millis()
\* returned in each of them.
C20_TimestampsOnly ==
  /\ fx.state = g.twin.state
  /\ fx.obj = g.twin.obj
  /\ fx.writes = g.twin.writes
  /\ fx.cbs = g.twin.cbs


\* C21: after every call on an Alternating the outputs A and B are never
\* both HIGH; switched off both are LOW; in state 2 B alone is HIGH; in
\* state 1 A alone is HIGH, or none before the first phase change.
C21_OneOfTwo ==
  active = "Alternating" =>
    /\ fx.obj # <<HIGH, HIGH>>
    /\ fx.state = 0 => fx.obj = <<LOW, LOW>>
    /\ fx.state = 2 => fx.obj = <<LOW, HIGH>>
    /\ fx.state = 1 => fx.obj \in {<<HIGH, LOW>>, <<LOW, LOW>>}


(***************************************************************************)
(* A Bounce5 (2 ms lit, 1 ms gap) polled with update(millis()) every       *)
(* g.step ms, with on() and off() calls in between.  previousMillis has no *)
(* initializer: it starts with any value.  g keeps the LEDs lit so far, the *)
(* time the current phase has lasted at the latest poll, whether the phase *)
(* was begun by update() and left alone since (clean), and the phase that  *)
(* update() ended last (done).                                             *)
(***************************************************************************)
BounceSteps == {1, 2}

BounceObjects(now) ==
  {[Bounce5_setOffInterval(Bounce5_setOnInterval(Bounce5_new, 2), 1)
      EXCEPT !.previousMillis = stale] :
     stale \in {U32(0), now, Add32(now, 5)}}

InitBounce ==
  /\ clock \in PollStarts
  /\ ticks = 0
  /\ active = "Bounce5"
  /\ fx \in BounceObjects(clock)
  /\ h = [op |-> "new", state |-> fx.state, onRun |-> 0]
  /\ setup = 0
  /\ \E step \in BounceSteps :
       g = [step |-> step, order |-> <<>>, phaseMs |-> 0, clean |-> FALSE,
            calls |-> 0, done |-> [state |-> 0, ms |-> 0, clean |-> FALSE]]

BouncePoll ==
  /\ ticks <= MaxBounceMs
  /\ fx' = Bounce5_update(Fresh(fx), clock)
  /\ Called("update")
  /\ g' = IF fx'.state # fx.state
          THEN [g EXCEPT
                  !.order = IF fx'.state = 1
                            THEN Append(@, CHOOSE i \in 0 .. 4 : fx'.obj[i + 1] = HIGH)
                            ELSE @,
                  !.phaseMs = 0,
                  !.clean = TRUE,
                  !.done = [state |-> fx.state, ms |-> g.phaseMs + g.step,
                            clean |-> g.clean]]
          ELSE [g EXCEPT !.phaseMs = @ + g.step]
  /\ clock' = Add32(clock, g.step)
  /\ ticks' = ticks + g.step
  /\ UNCHANGED <<active, setup>>

BounceCall(op, after) ==
  /\ g.calls < MaxBounceCalls
  /\ fx' = after
  /\ Called(op)
  /\ g' = [g EXCEPT !.calls = @ + 1, !.clean = FALSE]
  /\ UNCHANGED <<clock, ticks, active, setup>>

BounceOn == BounceCall("on", Bounce5_on(Fresh(fx)))

BounceOff == BounceCall("off", Bounce5_off(Fresh(fx)))

NextBounce ==
  \/ BouncePoll
  \/ BounceOn
  \/ BounceOff

SpecBounce == InitBounce /\ [][NextBounce]_vars

\* the outputs of a group that are HIGH
Lit(o) == {i \in 0 .. Len(o.obj) - 1 : o.obj[i + 1] = HIGH}

InitHazard ==
  /\ clock \in PollStarts
  /\ ticks = 0
  /\ active = "Turnsignal"
  /\ fx = Turnsignal_setInterval(Turnsignal_new(clock), 2, 1)
  /\ h = [op |-> "new", state |-> fx.state, onRun |-> 0]
  /\ setup = 0
  /\ \E step \in BounceSteps :
       g = [step |-> step, phaseMs |-> 0, clean |-> FALSE, calls |-> 0,
            done |-> [state |-> 0, current |-> 0, ms |-> 0, clean |-> FALSE]]

HazardPoll ==
  /\ ticks <= MaxHazardMs
  /\ fx' = Turnsignal_update(Fresh(fx), clock)
  /\ Called("update")
  /\ g' = IF fx'.current # fx.current
          THEN [g EXCEPT
                  !.phaseMs = 0,
                  !.clean = TRUE,
                  !.done = [state |-> fx.state, current |-> fx.current,
                            ms |-> g.phaseMs + g.step, clean |-> g.clean]]
          ELSE [g EXCEPT !.phaseMs = @ + g.step]
  /\ clock' = Add32(clock, g.step)
  /\ ticks' = ticks + g.step
  /\ UNCHANGED <<active, setup>>

HazardCall(op, after) ==
  /\ g.calls < MaxHazardCalls
  /\ fx' = after
  /\ Called(op)
  /\ g' = [g EXCEPT !.calls = @ + 1, !.clean = FALSE]
  /\ UNCHANGED <<clock, ticks, active, setup>>

HazardHazard == HazardCall("hazard", Turnsignal_hazard(Fresh(fx), clock))

HazardLeft == HazardCall("left", Turnsignal_left(Fresh(fx), clock))

HazardOff == HazardCall("off", Turnsignal_off(Fresh(fx)))

NextHazard ==
  \/ HazardPoll
  \/ HazardHazard
  \/ HazardLeft
  \/ HazardOff

SpecHazard == InitHazard /\ [][NextHazard]_vars

\* C23: in state HAZARD the left, right and dashboard outputs carry the
\* same level after every call; a phase that update() began and no call
\* disturbed shows HIGH for onInterval, or LOW for offInterval (to the poll
\* step), and the two alternate.
C23_HazardUnison ==
  fx.state = 3 =>
    /\ fx.obj \in {<<LOW, LOW, LOW>>, <<HIGH, HIGH, HIGH>>}
    /\ g.clean => fx.obj = IF fx.current = 1 THEN <<HIGH, HIGH, HIGH>>
                           ELSE <<LOW, LOW, LOW>>
    /\ g.clean => g.done.current # fx.current
    /\ g.done.clean /\ g.done.state = 3 /\ g.done.current = 1 =>
         g.done.ms \in fx.onInterval .. fx.onInterval + g.step - 1
    /\ g.done.clean /\ g.done.state = 3 /\ g.done.current = 0 =>
         g.done.ms \in fx.offInterval .. fx.offInterval + g.step - 1

\* the hazard lights on again after a whole dark phase
C23_Witness ==
  /\ fx.state = 3 /\ fx.obj = <<HIGH, HIGH, HIGH>> /\ g.clean
  /\ g.done.clean /\ g.done.state = 3 /\ g.done.current = 0
  /\ g.done.ms = fx.offInterval


(***************************************************************************)
(* An Effect put into SMOOTH mode in some state of some mode and then      *)
(* polled with update(millis()) every millisecond, with setMaxBrightness(),*)
(* on() and off() calls in between.  g.quiet is the time for which polls   *)
(* have been the only calls.                                               *)
(***************************************************************************)
\* an Effect in ONOFF mode, on or off, or in the lit phase of BLINK mode
SmoothBefore(made) ==
  LET e == Effect_setMaxBrightness(Effect_new(made), MaxSmoothBrightness)
      b == Effect_setOffInterval(Effect_setModeBlink(e), 0)
  IN  {e, Effect_off(e), Effect_blink(b, made)}

InitRamp ==
  /\ clock \in PollStarts
  /\ ticks = 0
  /\ active = "Effect"
  /\ fx \in {Fresh(Effect_setModeSmooth(e)) : e \in SmoothBefore(clock)}
  /\ h = [op |-> "setMode", state |-> fx.state, onRun |-> 0]
  /\ setup = 0
  /\ g = [quiet |-> 0, calls |-> 0]

RampPoll ==
  /\ ticks <= MaxSmoothMs
  /\ fx' = Effect_smooth(Fresh(fx), clock)
  /\ Called("update")
  /\ g' = [g EXCEPT !.quiet = @ + 1]
  /\ clock' = Add32(clock, 1)
  /\ ticks' = ticks + 1
  /\ UNCHANGED <<active, setup>>

RampCall(op, after) ==
  /\ g.calls < MaxSmoothCalls
  /\ fx' = after
  /\ Called(op)
  /\ g' = [quiet |-> 0, calls |-> g.calls + 1]
  /\ UNCHANGED <<clock, ticks, active, setup>>

RampSetMaxBrightness ==
  \E maxBrightness \in 0 .. MaxSmoothBrightness :
    RampCall("setMaxBrightness", Effect_setMaxBrightness(Fresh(fx), maxBrightness))

RampOn == RampCall("on", Effect_on(Fresh(fx), FALSE, clock, 0))

RampOff == RampCall("off", Effect_off(Fresh(fx)))

NextRamp ==
  \/ RampPoll
  \/ RampSetMaxBrightness
  \/ RampOn
  \/ RampOff

SpecSmooth == InitRamp /\ [][NextRamp]_vars

\* the time MaxSmoothBrightness steps take at a poll every millisecond
SettleMs(o) == MaxSmoothBrightness * (Iv(o, 0) + 1) + 1

\* C24: a smooth effect that is on (state other than 0) and has been polled
\* for long enough since the last other call is at maxBrightness, whatever
\* state it was in when SMOOTH mode was selected and also after
\* maxBrightness was lowered.
C24_SmoothReachesMax ==
  fx.state # 0 /\ g.quiet >= SettleMs(fx) => fx.currentBrightness = fx.maxBrightness

\* what holds: in state 1 the brightness settles at maxBrightness
SmoothSettlesInStateOne ==
  fx.state = 1 /\ g.quiet >= SettleMs(fx) => fx.currentBrightness = fx.maxBrightness


(***************************************************************************)
(* Claims on the modes of Effect                                           *)
(***************************************************************************)
\* setMode*() by the name of the mode
SetModeOf(e, mode, pick) ==
  CASE mode = "ONOFF" -> Effect_setModeOnOff(e)
    [] mode = "BLINK" -> Effect_setModeBlink(e)
    [] mode = "FLICKER" -> Effect_setModeFlicker(e)
    [] mode = "FLUORESCENT" -> Effect_setModeFluorescent(e, pick)
    [] mode = "HEARTBEAT" -> Effect_setModeHeartbeat(e)
    [] mode = "PULSE" -> Effect_setModePulse(e)
    [] mode = "RHYTHM" -> Effect_setModeRhythm(e)
    [] mode = "SMOOTH" -> Effect_setModeSmooth(e)

\* the configuration that the update routine of the mode of e reads
ModeFields(e) ==
  CASE e.mode = "ONOFF" -> <<>>
    [] e.mode = "BLINK" -> <<Iv(e, 0), Iv(e, 1)>>
    [] e.mode = "FLICKER" -> <<Iv(e, 0), e.maxBrightness>>
    [] e.mode = "FLUORESCENT" -> <<Iv(e, 0), Iv(e, 1)>>
    [] e.mode = "HEARTBEAT" -> <<Iv(e, 0), e.minBrightness, e.maxBrightness>>
    [] e.mode = "PULSE" -> <<Iv(e, 0)>>
    [] e.mode = "RHYTHM" -> <<e.lengthOfPattern, SubSeq(e.interval, 1, e.lengthOfPattern)>>
    [] e.mode = "SMOOTH" -> <<Iv(e, 0), Iv(e, 1), e.maxBrightness>>

\* C25: after a setMode*() call the configuration that the update routine
\* of the selected mode reads is that of a newly constructed Effect put
\* into the same mode.
C25_ModeDefaults ==
  active = "Effect" /\ h.op = "setMode" =>
    \E pick \in Picks :
      ModeFields(fx) = ModeFields(SetModeOf(Effect_new(clock), fx.mode, pick))


(***************************************************************************)
(* A Heartbeat object after setInterval(0), setMinBrightness(g.lo),        *)
(* setMaxBrightness(g.hi) and on(), polled with update(millis()) every     *)
(* millisecond, with on() and off() calls in between.                      *)
(***************************************************************************)
InitBeat ==
  /\ clock \in PollStarts
  /\ ticks = 0
  /\ active = "Heartbeat"
  /\ \E lo \in 0 .. MaxBeatBrightness, hi \in 0 .. MaxBeatBrightness :
       /\ lo < hi
       /\ fx = Heartbeat_on(
                 Heartbeat_setMaxBrightness(
                   Heartbeat_setMinBrightness(
                     Heartbeat_setInterval(Heartbeat_new(clock), 0), lo), hi))
       /\ g = [lo |-> lo, hi |-> hi, calls |-> 0]
  /\ h = [op |-> "on", state |-> 1, onRun |-> 0]
  /\ setup = 0

BeatPoll ==
  /\ ticks <= MaxBeatMs
  /\ fx' = Heartbeat_update(Fresh(fx), clock)
  /\ Called("update")
  /\ clock' = Add32(clock, 1)
  /\ ticks' = ticks + 1
  /\ UNCHANGED <<active, setup, g>>

BeatCall(op, after) ==
  /\ g.calls < MaxBeatCalls
  /\ fx' = after
  /\ Called(op)
  /\ g' = [g EXCEPT !.calls = @ + 1]
  /\ UNCHANGED <<clock, ticks, active, setup>>

BeatOn == BeatCall("on", Heartbeat_on(Fresh(fx)))

BeatOff == BeatCall("off", Heartbeat_off(Fresh(fx)))

NextBeat ==
  \/ BeatPoll
  \/ BeatOn
  \/ BeatOff

SpecBeat == InitBeat /\ [][NextBeat]_vars

\* C26: after setMinBrightness(lo) and setMaxBrightness(hi) with lo < hi
\* the brightness of a Heartbeat object, and every level that update()
\* writes to the sink, lies within lo .. hi.
C26_BeatRange ==
  /\ fx.pwm \in g.lo .. g.hi
  /\ h.op = "update" => \A k \in 1 .. Len(fx.writes) : fx.writes[k].v \in g.lo .. g.hi


(***************************************************************************)
(* A flicker, as Effect in FLICKER mode or as Flicker object, with any     *)
(* maxBrightness of 1 .. 255, polled with update(millis()) every 150 ms,   *)
(* which is longer than any interval the routine draws.                    *)
(***************************************************************************)
FlickerObjects(made) ==
  IF active = "Effect"
  THEN {Effect_setMaxBrightness(Effect_setModeFlicker(Effect_new(made)), m) :
          m \in 1 .. TwoTo8 - 1}
  ELSE {Flicker_setMaxBrightness(Flicker_new(made), m) : m \in 1 .. TwoTo8 - 1}

InitFlicker ==
  /\ clock \in PollStarts
  /\ ticks = 0
  /\ active \in {"Effect", "Flicker"}
  /\ fx \in FlickerObjects(clock)
  /\ h = [op |-> "setMaxBrightness", state |-> fx.state, onRun |-> 0]
  /\ setup = 0
  /\ g = [polls |-> 0]

FlickerPoll ==
  /\ g.polls < MaxFlickerPolls
  /\ \E pick \in Picks :
       fx' = IF active = "Effect" THEN Effect_update(Fresh(fx), clock, pick)
             ELSE Flicker_update(Fresh(fx), clock, pick)
  /\ Called("update")
  /\ g' = [polls |-> g.polls + 1]
  /\ clock' = Add32(clock, 150)
  /\ ticks' = ticks + 150
  /\ UNCHANGED <<active, setup>>

SpecFlicker == InitFlicker /\ [][FlickerPoll]_vars

\* C27: every level that update() writes in FLICKER mode, and that the
\* Flicker class writes, is at most maxBrightness and at most 255.
C27_FlickerLevel ==
  h.op = "update" =>
    \A k \in 1 .. Len(fx.writes) :
      fx.writes[k].v <= fx.maxBrightness /\ fx.writes[k].v <= 255

\* what holds: the level is at most 255 and less than maxBrightness + 5
FlickerLevelBound ==
  h.op = "update" =>
    \A k \in 1 .. Len(fx.writes) :
      fx.writes[k].v <= 255 /\ fx.writes[k].v < fx.maxBrightness + 5

(***************************************************************************)
(* Noiasca_timer.h: LittleTimer and MiniTimer.  previousMillis is a        *)
(* uint32_t in two limbs; iteration and limit are uint32_t counters that   *)
(* stay far below 2^31 in the runs examined; missedIteration is uint16_t.  *)
(* A callback pointer is "null", "fn" (a function was attached) or "junk": *)
(* the members cbOnStart, cbOnInterval, cbOnStop have no initialiser, so   *)
(* an object of automatic storage holds whatever was in memory.  cbs logs  *)
(* what one call invokes and ret is the value the call returns.            *)
(***************************************************************************)
Indeterminate == {"null", "junk"}

\* if (cb) cb();
CallIfSet(cbs, cb, name) ==
  IF cb = "null" THEN cbs
  ELSE Append(cbs, IF cb = "fn" THEN name ELSE "junk")

\* LittleTimer(interval, limit): no callback member is initialised
LittleTimer_new(millis, interval, limit, mem) ==
  [state |-> 1, previousMillis |-> millis,
   cbOnStart |-> mem[1], cbOnInterval |-> mem[2], cbOnStop |-> mem[3],
   interval |-> interval, limit |-> limit, iteration |-> 0,
   missedIteration |-> 0, ended |-> FALSE,
   writes |-> <<>>, cbs |-> <<>>, ret |-> 0]

\* LittleTimer(cbOnInterval, interval, limit)
LittleTimer_newOnInterval(millis, cbOnInterval, interval, limit, mem) ==
  [LittleTimer_new(millis, interval, limit, mem)
     EXCEPT !.cbOnInterval = cbOnInterval]

LittleTimer_attachOnStop(t, cbOnStop) == [t EXCEPT !.cbOnStop = cbOnStop]

LittleTimer_start(t, millis) ==
  IF t.state # 1
  THEN [t EXCEPT !.state = 1, !.previousMillis = millis,
                 !.cbs = CallIfSet(@, t.cbOnStart, "cbOnStart")]
  ELSE t

LittleTimer_stop(t) ==
  IF t.state # 0
  THEN [t EXCEPT !.state = 0, !.cbs = CallIfSet(@, t.cbOnStop, "cbOnStop")]
  ELSE t

LittleTimer_update(t, currentMillis) ==
  IF t.state # 0 /\ GE32(Elapsed(currentMillis, t.previousMillis), t.interval)
  THEN IF t.limit = 0 \/ (t.limit > 0 /\ t.limit > t.iteration + 1)
       THEN [t EXCEPT !.iteration = @ + 1,
                      !.missedIteration = (@ + 1) % TwoTo16,
                      !.ended = FALSE,
                      !.previousMillis = currentMillis,
                      !.cbs = CallIfSet(@, t.cbOnInterval, "cbOnInterval")]
       ELSE [t EXCEPT !.previousMillis = currentMillis,
                      !.cbs = IF t.cbOnStop # "null"
                              THEN CallIfSet(@, t.cbOnStop, "cbOnStop")
                              ELSE CallIfSet(@, t.cbOnInterval, "cbOnInterval"),
                      !.state = 0,
                      !.iteration = 0,
                      !.missedIteration = 0,
                      !.ended = TRUE]
  ELSE t

LittleTimer_hasTriggered(t, millis) ==
  LET u == LittleTimer_update(t, millis)
  IN  [u EXCEPT !.ret = u.missedIteration, !.missedIteration = 0]

LittleTimer_hasEnded(t, millis) ==
  LET u == LittleTimer_update(t, millis)
  IN  [u EXCEPT !.ret = IF u.ended THEN 1 ELSE 0, !.ended = FALSE]

MiniTimer_new(millis, interval, limit) ==
  [state |-> 1, previousMillis |-> millis,
   cbOnStart |-> "null", cbOnInterval |-> "null", cbOnStop |-> "null",
   interval |-> interval, limit |-> limit, iteration |-> 0,
   missedIteration |-> 0, ended |-> FALSE,
   writes |-> <<>>, cbs |-> <<>>, ret |-> 0]

MiniTimer_start(t, millis) ==
  IF t.state # 1
  THEN [t EXCEPT !.state = 1, !.previousMillis = millis]
  ELSE t

MiniTimer_stop(t) == [t EXCEPT !.state = 0]

MiniTimer_update(t, currentMillis) ==
  IF t.state # 0 /\ GE32(Elapsed(currentMillis, t.previousMillis), t.interval)
  THEN IF t.limit > 0 /\ t.iteration + 1 >= t.limit
       THEN [t EXCEPT !.previousMillis = currentMillis,
                      !.state = 0,
                      !.iteration = 0,
                      !.missedIteration = 0,
                      !.ended = TRUE]
       ELSE [t EXCEPT !.iteration = @ + 1,
                      !.missedIteration = (@ + 1) % TwoTo16,
                      !.ended = FALSE,
                      !.previousMillis = currentMillis]
  ELSE t

MiniTimer_hasTriggered(t, millis) ==
  LET u == MiniTimer_update(t, millis)
  IN  [u EXCEPT !.ret = u.missedIteration, !.missedIteration = 0]

MiniTimer_hasEnded(t, millis) ==
  LET u == MiniTimer_update(t, millis)
  IN  [u EXCEPT !.ret = IF u.ended THEN 1 ELSE 0, !.ended = FALSE]

(***************************************************************************)
(* SpecTimer: one LittleTimer or MiniTimer with an interval of 1 or 2 ms   *)
(* and a limit of 0 .. MaxLimit is polled with update(), hasTriggered()    *)
(* and hasEnded() while the wall clock advances; the application may       *)
(* stop() and start() it.  g counts what happened: n intervals detected    *)
(* since construction or since the restart after an automatic stop, total  *)
(* intervals detected in the run, sum of the hasTriggered() results, self  *)
(* when the timer stopped by itself, asked hasEnded() calls since it did   *)
(* (0, 1, or 2 for more), hit when the last call detected an interval.     *)
(***************************************************************************)
TimerIntervals == {1, 2}

LittleTimers(millis) ==
  UNION {
    {LittleTimer_new(millis, interval, limit, mem),
     LittleTimer_newOnInterval(millis, "fn", interval, limit, mem),
     LittleTimer_attachOnStop(
       LittleTimer_newOnInterval(millis, "fn", interval, limit, mem), "fn")} :
    <<interval, limit, mem>> \in
      TimerIntervals \X (0 .. MaxLimit) \X {<<"null", "null", "null">>,
                                            <<"junk", "junk", "junk">>}}

MiniTimers(millis) ==
  {MiniTimer_new(millis, interval, limit) :
     <<interval, limit>> \in TimerIntervals \X (0 .. MaxLimit)}

InitTimer ==
  /\ clock \in PollStarts
  /\ ticks = 0
  /\ active \in {"LittleTimer", "MiniTimer"}
  /\ fx \in IF active = "LittleTimer" THEN LittleTimers(clock)
                                      ELSE MiniTimers(clock)
  /\ h = [op |-> "new", state |-> fx.state, onRun |-> 0]
  /\ setup = 0
  /\ g = [n |-> 0, total |-> 0, sum |-> 0, asked |-> 0, self |-> FALSE,
          restarts |-> 0, hit |-> FALSE, calls |-> 0]

\* update(), hasTriggered() or hasEnded() at the present millis()
TimerPoll(op, after) ==
  /\ fx' = after
  /\ Called(op)
  /\ LET hit == fx'.previousMillis # fx.previousMillis
     IN  g' = [g EXCEPT
                 !.hit = hit,
                 !.n = IF hit THEN @ + 1 ELSE @,
                 !.total = IF hit THEN @ + 1 ELSE @,
                 !.self = IF hit THEN fx'.state = 0 ELSE @,
                 !.sum = IF op = "hasTriggered" THEN @ + fx'.ret ELSE @,
                 !.asked = IF op = "hasEnded" /\ fx'.state = 0 /\ (hit \/ g.self)
                           THEN (IF @ = 0 THEN 1 ELSE 2) ELSE @]
  /\ UNCHANGED <<clock, ticks, active, setup>>

TimerUpdate ==
  TimerPoll("update",
            IF active = "LittleTimer" THEN LittleTimer_update(Fresh(fx), clock)
                                      ELSE MiniTimer_update(Fresh(fx), clock))

TimerHasTriggered ==
  TimerPoll("hasTriggered",
            IF active = "LittleTimer"
            THEN LittleTimer_hasTriggered(Fresh(fx), clock)
            ELSE MiniTimer_hasTriggered(Fresh(fx), clock))

TimerHasEnded ==
  TimerPoll("hasEnded",
            IF active = "LittleTimer"
            THEN LittleTimer_hasEnded(Fresh(fx), clock)
            ELSE MiniTimer_hasEnded(Fresh(fx), clock))

TimerStart ==
  /\ g.calls < MaxTimerCalls
  /\ fx' = IF active = "LittleTimer" THEN LittleTimer_start(Fresh(fx), clock)
                                     ELSE MiniTimer_start(Fresh(fx), clock)
  /\ Called("start")
  /\ g' = IF g.self
          THEN [g EXCEPT !.calls = @ + 1, !.hit = FALSE, !.n = 0,
                         !.self = FALSE, !.restarts = @ + 1]
          ELSE [g EXCEPT !.calls = @ + 1, !.hit = FALSE]
  /\ UNCHANGED <<clock, ticks, active, setup>>

TimerStop ==
  /\ g.calls < MaxTimerCalls
  /\ fx' = IF active = "LittleTimer" THEN LittleTimer_stop(Fresh(fx))
                                     ELSE MiniTimer_stop(Fresh(fx))
  /\ Called("stop")
  /\ g' = [g EXCEPT !.calls = @ + 1, !.hit = FALSE]
  /\ UNCHANGED <<clock, ticks, active, setup>>

TimerTick ==
  /\ ticks < MaxTimerMs
  /\ clock' = Add32(clock, 1)
  /\ ticks' = ticks + 1
  /\ UNCHANGED <<active, fx, h, setup, g>>

NextTimer ==
  \/ TimerUpdate
  \/ TimerHasTriggered
  \/ TimerHasEnded
  \/ TimerStart
  \/ TimerStop
  \/ TimerTick

SpecTimer == InitTimer /\ [][NextTimer]_vars

\* the callbacks the documentation promises for the interval just detected:
\* cbOnInterval while the limit is not reached, cbOnStop (or cbOnInterval
\* when no stop callback was attached) for the last interval
PromisedCallbacks(t, last) ==
  LET one(cb, name) == IF cb = "fn" THEN <<name>> ELSE <<>>
  IN  IF ~last THEN one(t.cbOnInterval, "cbOnInterval")
      ELSE IF t.cbOnStop = "fn" THEN <<"cbOnStop">>
      ELSE one(t.cbOnInterval, "cbOnInterval")

\* the counting half of C28: a timer with limit N > 0 stops by itself exactly
\* at its N-th interval with iteration 0, a timer with limit 0 never stops by
\* itself, and hasEnded() is true once, in its first call after that stop
\* (claimed up to the first restart: a report not fetched before start() is
\* dropped by the next interval)
LimitCounted ==
  /\ fx.limit > 0 =>
       /\ g.n <= fx.limit
       /\ g.self <=> g.n = fx.limit
       /\ g.self => fx.state = 0 /\ fx.iteration = 0
  /\ fx.limit = 0 => ~g.self
  /\ ~g.self /\ h.op \in {"new", "update", "hasTriggered", "hasEnded"}
       /\ h.state = 1 => fx.state = 1
  /\ g.restarts = 0 /\ h.op = "hasEnded" =>
       (fx.ret = 1 <=> g.self /\ g.asked = 1)

\* C28: a LittleTimer or MiniTimer with limit N > 0 detects exactly N
\* intervals and then stops by itself with iteration 0 and hasEnded() true
\* once; a LittleTimer invokes cbOnInterval for the first N-1 intervals and
\* cbOnStop, or cbOnInterval when no stop callback is attached, for the N-th;
\* with limit 0 the timer never stops by itself
C28_LimitedTimer ==
  /\ LimitCounted
  /\ g.hit /\ fx.cbOnInterval = "fn" => fx.cbs = PromisedCallbacks(fx, g.self)

\* the callback half of C28 for a timer whose unset callback members are
\* null, as they are in an object of static storage
CallbacksWhenZeroed ==
  g.hit /\ "junk" \notin {fx.cbOnStart, fx.cbOnInterval, fx.cbOnStop} =>
    fx.cbs = PromisedCallbacks(fx, g.self)

\* a limited timer has just stopped by itself at its MaxLimit-th interval in
\* a hasEnded() call that returned true
LimitReached ==
  /\ fx.limit = MaxLimit /\ g.self /\ g.n = MaxLimit
  /\ h.op = "hasEnded" /\ fx.ret = 1 /\ g.hit

\* C29: hasTriggered() returns the number of intervals detected since the
\* previous hasTriggered() call, so right after a call the sum of all its
\* results equals the number of intervals the timer has detected, the final
\* interval of a limited timer included
C29_TriggeredSum ==
  h.op = "hasTriggered" => g.sum = g.total

\* what C29 states holds for a timer without limit
TriggeredSumUnlimited ==
  h.op = "hasTriggered" /\ fx.limit = 0 => g.sum = g.total

\* a limited timer loses exactly the intervals not fetched when it stops
TriggeredSumLimited ==
  h.op = "hasTriggered" /\ g.restarts = 0 /\ ~g.self => g.sum = g.total

(***************************************************************************)
(* Noiasca_button.h: Button.  lastDebounceTime is a uint16_t, the          *)
(* timestamp a uint32_t; (currentMillis & 0xFF) - lastDebounceTime is      *)
(* computed in 32 bits without sign.  cbOnPress and cbOnRelease have no    *)
(* initialiser.  pin is what digitalRead(buttonPin) returns.               *)
(***************************************************************************)
debounceDelay == 50

\* Button(attachTo, active) at wall clock millis
Button_new(millis, activeLevel, mem) ==
  [state |-> 0, active |-> activeLevel, lastButtonState |-> HIGH,
   lastDebounceTime |-> millis[2],
   cbOnPress |-> mem[1], cbOnRelease |-> mem[2],
   writes |-> <<>>, cbs |-> <<>>]

Button_setOnPress(b, cbOnPress) == [b EXCEPT !.cbOnPress = cbOnPress]

Button_setOnRelease(b, cbOnRelease) == [b EXCEPT !.cbOnRelease = cbOnRelease]

\* (currentMillis & 0xFF) - lastDebounceTime > debounceDelay
Button_settled(b, currentMillis) ==
  GT32(Elapsed(U32(currentMillis[2] % TwoTo8), U32(b.lastDebounceTime)),
       debounceDelay)

Button_update(b, currentMillis, pin) ==
  LET reading == IF pin = b.active THEN HIGH ELSE LOW
  IN  IF Button_settled(b, currentMillis)
      THEN [b EXCEPT
              !.lastDebounceTime = currentMillis[2] % TwoTo8,
              !.cbs = IF reading = LOW /\ b.lastButtonState = HIGH
                      THEN CallIfSet(@, b.cbOnRelease, "cbOnRelease")
                      ELSE IF reading = HIGH /\ b.lastButtonState = LOW
                      THEN CallIfSet(@, b.cbOnPress, "cbOnPress")
                      ELSE @,
              !.lastButtonState = reading]
      ELSE b

(***************************************************************************)
(* SpecButton: a Button, active LOW or HIGH, with both callbacks attached  *)
(* or none, is given update(now) calls whose timestamps never decrease     *)
(* (steps of 0, 1 and debounceDelay + 1 ms) while the pin takes any level. *)
(* g.reading is the logical reading of the last call and g.last the        *)
(* lastButtonState it met, g.taken whether the call accepted the sample,   *)
(* g.any whether a sample was accepted before it, g.gap the time between   *)
(* the last two accepted samples and g.since the time since the last one   *)
(* (both counted up to debounceDelay + 1).                                 *)
(***************************************************************************)
ButtonStarts == {U32(0), U32(200)}

ButtonSteps == {0, 1, debounceDelay + 1}

Buttons(millis) ==
  UNION {
    {Button_new(millis, activeLevel, mem),
     Button_setOnRelease(
       Button_setOnPress(Button_new(millis, activeLevel, mem), "fn"), "fn")} :
    <<activeLevel, mem>> \in {LOW, HIGH} \X {<<"null", "null">>,
                                            <<"junk", "junk">>}}

InitButton ==
  /\ clock \in ButtonStarts
  /\ ticks = 0
  /\ active = "Button"
  /\ fx \in Buttons(clock)
  /\ h = [op |-> "new", state |-> 0, onRun |-> 0]
  /\ setup = 0
  /\ g = [reading |-> HIGH, last |-> HIGH, taken |-> FALSE, any |-> FALSE,
          gap |-> 0, since |-> 0]

ButtonUpdate ==
  \E step \in ButtonSteps, pin \in {LOW, HIGH} :
    /\ ticks + step <= MaxButtonMs
    /\ clock' = Add32(clock, step)
    /\ ticks' = ticks + step
    /\ fx' = Button_update(Fresh(fx), clock', pin)
    /\ Called("update")
    /\ LET taken == Button_settled(fx, clock')
           since == IF g.since + step > debounceDelay
                    THEN debounceDelay + 1 ELSE g.since + step
       IN  g' = [reading |-> IF pin = fx.active THEN HIGH ELSE LOW,
                 last |-> fx.lastButtonState,
                 taken |-> taken,
                 any |-> IF taken THEN g.taken \/ g.any ELSE g.any,
                 gap |-> IF taken THEN since ELSE g.gap,
                 since |-> IF taken THEN 0 ELSE since]
    /\ UNCHANGED <<active, setup>>

NextButton == ButtonUpdate

SpecButton == InitButton /\ [][NextButton]_vars

\* C30: update(now) invokes a callback only when the logical reading differs
\* from the last accepted one, and two successive accepted samples are more
\* than debounceDelay apart in caller-supplied time
C30_Debounced ==
  /\ fx.cbs # <<>> => g.taken /\ g.reading # g.last
  /\ g.taken /\ g.any => g.gap > debounceDelay

\* the first half of C30 alone: a callback only for a changed reading
CallbackOnlyOnChange ==
  fx.cbs # <<>> => g.taken /\ g.reading # g.last

\* the sink of a blinking object shows its phase: HIGH exactly in state 2
SinkShowsPhase(o) ==
  /\ o.obj \in {Dig(LOW), Dig(HIGH)}
  /\ o.obj = Dig(HIGH) <=> o.state = 2

Blinking(o) ==
  active = "Blink" \/ (active = "Effect" /\ o.mode = "BLINK")

\* C31: for a Blink and for an Effect in BLINK mode, once the sink is HIGH
\* exactly when state == 2 (as it is after off() or a phase transition), it
\* is so again after every on(), on(force), off(), toggle() or update(now)
C31_SinkFollowsState ==
  [][Blinking(fx) /\ SinkShowsPhase(fx) /\ clock' = clock
       /\ h'.op \in {"on", "onForce", "off", "toggle", "update"}
     => SinkShowsPhase(fx')]_vars

\* what C31 states holds for the calls other than on(true)
SinkFollowsStateUnforced ==
  [][Blinking(fx) /\ SinkShowsPhase(fx) /\ clock' = clock
       /\ h'.op \in {"on", "off", "toggle", "update"}
     => SinkShowsPhase(fx')]_vars

(***************************************************************************)
(* SpecTube: an Effect in FLUORESCENT mode, switched on, is polled with    *)
(* update(millis()) every 100 ms while the application calls on() and      *)
(* off() at any point.  g.calls counts those calls; g.relit tells that     *)
(* on() was called in state 2 or 3 with no off() since.                    *)
(***************************************************************************)
TubePoll ==
  /\ ticks <= MaxTubeMs
  /\ \E pick \in Picks : fx' = Effect_update(Fresh(fx), clock, pick)
  /\ Called("update")
  /\ clock' = Add32(clock, 100)
  /\ ticks' = ticks + 100
  /\ UNCHANGED <<active, setup, g>>

TubeCall(op, after) ==
  /\ g.calls < MaxTubeCalls
  /\ fx' = after
  /\ Called(op)
  /\ g' = [calls |-> g.calls + 1,
           relit |-> IF op = "off" THEN FALSE ELSE g.relit \/ fx.state >= 2]
  /\ UNCHANGED <<clock, ticks, active, setup>>

TubeOn ==
  \E pick \in Picks : TubeCall("on", Effect_on(Fresh(fx), FALSE, clock, pick))

TubeOff == TubeCall("off", Effect_off(Fresh(fx)))

InitTube ==
  /\ clock \in PollStarts
  /\ ticks = 0
  /\ active = "Effect"
  /\ \E pick \in Picks, o \in FluorObjects(clock) :
       fx = Effect_on(Fresh(o), FALSE, clock, pick)
  /\ h = [op |-> "on", state |-> 0, onRun |-> 1]
  /\ setup = 0
  /\ g = [calls |-> 0, relit |-> FALSE]

NextTube ==
  \/ TubePoll
  \/ TubeOn
  \/ TubeOff

SpecTube == InitTube /\ [][NextTube]_vars

\* C32: in FLUORESCENT mode, whatever on(), off() and update(now) calls were
\* made, state 3 implies that currentBrightness and the last level written
\* are 255, and state 2 implies a brightness of at least 200
C32_TubeBrightness ==
  /\ fx.state = 3 => fx.currentBrightness = 255 /\ fx.obj = Pwm(255)
  /\ fx.state = 2 => fx.currentBrightness >= 200

\* what C32 states holds as long as on() is not called on a tube that is in
\* state 2 or 3
TubeBrightnessNotRelit ==
  ~g.relit => C32_TubeBrightness

(***************************************************************************)
(* SpecSignal: the Turnsignal of SpecHazard, polled the same way, with     *)
(* left(), right(), hazard(), off() and setState(0 .. 3) calls at any      *)
(* point.                                                                  *)
(***************************************************************************)
SignalRight == HazardCall("right", Turnsignal_right(Fresh(fx), clock))

SignalSetState ==
  \E newState \in 0 .. 3 :
    HazardCall("setState", Turnsignal_setState(Fresh(fx), newState, clock))

NextSignal ==
  \/ HazardPoll
  \/ HazardHazard
  \/ HazardLeft
  \/ HazardOff
  \/ SignalRight
  \/ SignalSetState

SpecSignal == InitHazard /\ [][NextSignal]_vars

\* C33: after any left(), right(), hazard(), off(), setState() and
\* update(now) calls output 0 is HIGH only in state LEFT or HAZARD, output 1
\* only in state RIGHT or HAZARD, output 2 only in state HAZARD, and in state
\* OFF all three are LOW
C33_OutputsOfState ==
  /\ fx.obj[1] = HIGH => fx.state \in {1, 3}
  /\ fx.obj[2] = HIGH => fx.state \in {2, 3}
  /\ fx.obj[3] = HIGH => fx.state = 3
  /\ fx.state = 0 => fx.obj = <<LOW, LOW, LOW>>

\* a call has just changed a lit hazard signal to another state, which
\* cleared the three outputs
C33_Witness ==
  /\ h.op \in {"left", "right", "setState"} /\ h.state = 3
  /\ fx.state \in {1, 2}
  /\ Len(fx.writes) = 3
  /\ g.done.state = 3 /\ g.done.current = 0

(***************************************************************************)
(* SpecFade: an Effect in SMOOTH mode (1 ms per step upwards, 2 ms per     *)
(* step downwards) with a brightness of 2 of at most 2, or of 254 of at    *)
(* most 255, is polled with update(millis()) every g.step ms while the     *)
(* application calls on(), off() and offForced().  g.from is the           *)
(* brightness and g.last the name of the latest of these calls, g.quiet    *)
(* the time polled since, g.calls their number.                            *)
(***************************************************************************)
FadeObjects(made) ==
  {Effect_setCurrentBrightness(
     Effect_setMaxBrightness(
       Effect_setOffInterval(
         Effect_setOnInterval(Effect_setModeSmooth(Effect_new(made)), 1), 2),
       b[2]),
     b[1]) : b \in {<<2, 2>>, <<254, 255>>}}

InitFade ==
  /\ clock \in PollStarts
  /\ ticks = 0
  /\ active = "Effect"
  /\ fx \in {Fresh(e) : e \in FadeObjects(clock)}
  /\ h = [op |-> "setCurrentBrightness", state |-> fx.state, onRun |-> 0]
  /\ setup = 0
  /\ \E step \in BounceSteps :
       g = [step |-> step, from |-> fx.currentBrightness, last |-> "new",
            quiet |-> 0, calls |-> 0]

FadePoll ==
  /\ ticks <= MaxFadeMs
  /\ fx' = Effect_smooth(Fresh(fx), clock)
  /\ Called("update")
  /\ g' = [g EXCEPT !.quiet = @ + g.step]
  /\ clock' = Add32(clock, g.step)
  /\ ticks' = ticks + g.step
  /\ UNCHANGED <<active, setup>>

FadeCall(op, after) ==
  /\ g.calls < MaxFadeCalls
  /\ fx' = after
  /\ Called(op)
  /\ g' = [g EXCEPT !.from = fx.currentBrightness, !.last = op, !.quiet = 0,
                    !.calls = @ + 1]
  /\ UNCHANGED <<clock, ticks, active, setup>>

FadeOn == FadeCall("on", Effect_on(Fresh(fx), FALSE, clock, 0))

FadeOff == FadeCall("off", Effect_off(Fresh(fx)))

FadeOffForced == FadeCall("offForced", Effect_offForced(Fresh(fx)))

NextFade ==
  \/ FadePoll
  \/ FadeOn
  \/ FadeOff
  \/ FadeOffForced

SpecFade == InitFade /\ [][NextFade]_vars

\* C34, the calls: off() in SMOOTH mode writes nothing and keeps
\* currentBrightness, offForced() sets and writes brightness 0 at once; an
\* update(now) of the switched-off effect lowers the brightness by exactly 1,
\* with one write, when the down-interval has elapsed since the previous step,
\* never raises it and writes nothing once it is 0
FadeSteps ==
  /\ h'.op = "off" =>
       fx'.writes = <<>> /\ fx'.currentBrightness = fx.currentBrightness
         /\ fx'.obj = fx.obj /\ fx'.state = 0
  /\ h'.op = "offForced" =>
       fx'.writes = <<Pwm(0)>> /\ fx'.currentBrightness = 0 /\ fx'.state = 0
  /\ h'.op = "update" /\ fx.state = 0 =>
       LET el == Elapsed(clock, fx.previousMillis)
           lowered == /\ fx'.currentBrightness = fx.currentBrightness - 1
                      /\ fx'.writes = <<Pwm(fx.currentBrightness - 1)>>
           kept == /\ fx'.currentBrightness = fx.currentBrightness
                   /\ fx'.writes = <<>>
       IN  /\ lowered \/ kept
           /\ lowered => GE32(el, Iv(fx, 1)) /\ fx.currentBrightness > 0
           /\ fx.currentBrightness > 0 /\ GT32(el, Iv(fx, 1)) => lowered
           /\ fx'.state = 0

\* the brightness never leaves 0 .. 255 (nor 0 .. the larger of its start
\* and maxBrightness), and polling after off() brings it to 0 within
\* (down-interval + poll step) ms per level
FadeReachesZero ==
  /\ fx.currentBrightness \in 0 .. 255
  /\ fx.currentBrightness <= IF fx.maxBrightness = 2 THEN 2 ELSE 255
  /\ fx.obj.v = fx.currentBrightness
  /\ g.last = "off" /\ g.quiet >= g.from * (Iv(fx, 1) + g.step) + g.step =>
       fx.currentBrightness = 0

ToggleOf(o, pin) ==
  {<<>>, <<<<pin, IF o.currentBlink # 0 THEN LOW ELSE HIGH>>>>}

\* C35: in MANUAL mode update(now) changes neither state nor the sequence
\* index and invokes no callback; it writes nothing but the blink toggle of
\* output 1 in YELLOWBLINK and of output 2 in GREENBLINK
C35_ManualUpdate ==
  [][h'.op = "update" /\ fx.mode = "MANUAL" =>
       /\ fx'.state = fx.state
       /\ fx'.currentSequence = fx.currentSequence
       /\ fx'.mode = "MANUAL"
       /\ fx'.cbs = <<>>
       /\ fx'.writes \in (CASE fx.state = YELLOWBLINK -> ToggleOf(fx, 1)
                            [] fx.state = GREENBLINK -> ToggleOf(fx, 2)
                            [] OTHER -> {<<>>})]_vars

\* a MANUAL traffic light with callbacks whose sequence interval has elapsed
\* was polled in GREENBLINK and toggled output 2 only
C35_Witness ==
  /\ h.op = "update" /\ fx.mode = "MANUAL" /\ fx.cbSequenceChange
  /\ fx.state = GREENBLINK /\ fx.writes = <<<<2, HIGH>>>>
  /\ GE32(Elapsed(clock, fx.previousMillis),
          fx.sequence[fx.currentSequence + 1].interval)

(***************************************************************************)
(* SpecLamp: the traffic lights of SpecTraffic with red(), green(),        *)
(* setState(YELLOWBLINK), setState(GREENBLINK), setMode(MANUAL) and        *)
(* update(millis()) calls in any order while the wall clock advances.      *)
(***************************************************************************)
LampSetState ==
  \E newState \in {YELLOWBLINK, GREENBLINK} :
    TrafficCall("setState", <<newState>>, Trafficlight_setState(Fresh(fx), newState))

NextLamp ==
  \/ LampSetState
  \/ TrafficColour
  \/ TrafficUpdate
  \/ TrafficSetMode
  \/ TrafficTick

SpecLamp == InitTraffic /\ [][NextLamp]_vars

\* the output that blinks in a face
BlinkPin(face) == IF face = YELLOWBLINK THEN 1 ELSE 2

EightEntries(o) ==
  LET RECURSIVE fill(_, _)
      fill(t, i) == IF i = Len(t.sequence) THEN t
                    ELSE fill(Trafficlight_setSequenceIndex(t, i, RED, 1), i + 1)
  IN  Trafficlight_setSequenceMax(fill(o, 0), Len(o.sequence))

PatternObjects(made) ==
  CASE active = "Effect" ->
         {Effect_on(Effect_setModeRhythm(Effect_new(made)), FALSE, made, 0)}
    [] active = "Rhythm" -> {Rhythm_new, [Rhythm_new EXCEPT !.previousMillis = made]}
    [] active = "Trafficlight" -> {EightEntries(Trafficlight_new(made))}

InitPattern ==
  /\ clock \in PollStarts
  /\ ticks = 0
  /\ active \in {"Effect", "Rhythm", "Trafficlight"}
  /\ fx \in PatternObjects(clock)
  /\ h = [op |-> "new", state |-> fx.state, onRun |-> 0]
  /\ setup = 0
  /\ g = [calls |-> 0, late |-> -1]

PatternPoll ==
  /\ ticks < MaxPatternPolls
  /\ \E pick \in Picks :
       fx' = CASE active = "Effect" -> Effect_update(Fresh(fx), clock, pick)
               [] active = "Rhythm" -> Rhythm_update(Fresh(fx), clock)
               [] active = "Trafficlight" -> Trafficlight_update(Fresh(fx), clock)
  /\ Called("update")
  /\ clock' = Add32(clock, 300)
  /\ ticks' = ticks + 1
  /\ UNCHANGED <<active, setup, g>>

PatternCall(class, op, after) ==
  /\ active \in class
  /\ g.calls < MaxPatternCalls
  /\ fx' = after
  /\ Called(op)
  /\ g' = [calls |-> g.calls + 1,
           late |-> IF op # "setInterval" THEN g.late
                    ELSE IF active = "Effect" /\ after.state > after.lengthOfPattern
                    THEN after.state
                    ELSE IF active = "Rhythm" /\ after.current >= after.lengthOfPattern
                    THEN after.current
                    ELSE -1]
  /\ UNCHANGED <<clock, ticks, active, setup>>

PatternSetInterval ==
  \E iv \in PatternArgs :
    PatternCall({"Effect", "Rhythm"}, "setInterval",
                IF active = "Effect" THEN Effect_setInterval(Fresh(fx), iv)
                ELSE Rhythm_setInterval(Fresh(fx), iv))

PatternSetMode ==
  \E pick \in Picks :
    \E after \in {Effect_setModeOnOff(Fresh(fx)), Effect_setModeBlink(Fresh(fx)),
                  Effect_setModeFlicker(Fresh(fx)),
                  Effect_setModeFluorescent(Fresh(fx), pick),
                  Effect_setModeHeartbeat(Fresh(fx)), Effect_setModePulse(Fresh(fx)),
                  Effect_setModeRhythm(Fresh(fx)), Effect_setModeSmooth(Fresh(fx))} :
      PatternCall({"Effect"}, "setMode", after)

PatternOn ==
  \E pick \in Picks :
    PatternCall({"Effect", "Rhythm"}, "on",
                IF active = "Effect" THEN Effect_on(Fresh(fx), FALSE, clock, pick)
                ELSE LedBase_on(Fresh(fx)))

PatternOff ==
  PatternCall({"Effect", "Rhythm"}, "off",
              IF active = "Effect" THEN Effect_off(Fresh(fx))
              ELSE Rhythm_off(Fresh(fx)))

PatternSetSequenceMax ==
  \E newMax \in {0, 2, 8, 9} :
    PatternCall({"Trafficlight"}, "setSequenceMax",
                Trafficlight_setSequenceMax(Fresh(fx), newMax))

NextPattern ==
  \/ PatternPoll
  \/ PatternSetInterval
  \/ PatternSetMode
  \/ PatternOn
  \/ PatternOff
  \/ PatternSetSequenceMax

SpecPattern == InitPattern /\ [][NextPattern]_vars

\* the slot of interval[] (of sequence[] for a Trafficlight) that the next
\* update() reads
SlotRead ==
  CASE active = "Effect" -> IF fx.mode = "RHYTHM" /\ fx.state > 0 THEN fx.state - 1
                            ELSE 0
    [] active = "Rhythm" -> fx.current
    [] active = "Trafficlight" -> fx.currentSequence

SlotInArray == SlotRead \in 0 .. 7

\* a phase change: an update() of a pattern that wrote the sink
PhaseChange ==
  /\ h'.op = "update"
  /\ active = "Rhythm" \/ (active = "Effect" /\ fx.mode = "RHYTHM")
  /\ Len(fx'.writes) > 0

CounterInPattern ==
  PhaseChange =>
    IF active = "Effect" THEN fx'.state \in 1 .. fx'.lengthOfPattern
    ELSE fx'.current \in 0 .. fx'.lengthOfPattern - 1

\* C37: whatever setInterval overloads, setMode*() calls, on(), off() and
\* update(now) were made, the slot of the 8-slot interval array read by
\* Effect in RHYTHM mode and by Rhythm is within 0..7, and so is the
\* sequence index of a Trafficlight under setSequenceMax(); every phase
\* change leaves the phase counter inside the pattern, 1..lengthOfPattern
\* for Effect and 0..lengthOfPattern-1 for Rhythm
C37_PatternIndex == []SlotInArray /\ [][CounterInPattern]_vars

\* the counter of an Effect stood in the last of eight slots when a
\* two-argument setInterval() shortened the pattern, and the next phase
\* change has run
C37_Witness ==
  /\ active = "Effect"
  /\ g.late = 8
  /\ h.op = "update"
  /\ h.state = 8
  /\ fx.mode = "RHYTHM"
  /\ fx.lengthOfPattern = 2
  /\ fx.state = 1

(***************************************************************************)
(* An Effect in BLINK mode (fx) and a Blink object (g.twin), constructed   *)
(* at the same time, given the same on- and off-interval and the same      *)
(* callback, and driven by the same calls: on(), off(), toggle() and       *)
(* update(now) at any point, now being the wall clock.                     *)
(***************************************************************************)
PairIntervals == {<<1, 2>>, <<2, 1>>, <<3, 3>>}

InitPair ==
  /\ clock \in StartTimes
  /\ ticks = 0
  /\ active = "Effect"
  /\ \E iv \in PairIntervals, funcPtr \in BOOLEAN :
       /\ fx = Effect_setOffInterval(
                 Effect_setOnInterval(
                   Effect_setModeBlink(
                     Effect_setOnStateChange(Effect_new(clock), funcPtr)), iv[1]),
                 iv[2])
       /\ g = [twin |-> Blink_setOffInterval(
                          Blink_setOnInterval(
                            LedBase_setOnStateChange(Blink_new(clock), funcPtr),
                            iv[1]),
                          iv[2])]
  /\ h = [op |-> "new", state |-> fx.state, onRun |-> 0]
  /\ setup = 0

\* the same call on both objects
PairCall(op, after, twinAfter) ==
  /\ fx' = after
  /\ g' = [twin |-> twinAfter]
  /\ Called(op)
  /\ UNCHANGED <<clock, ticks, active, setup>>

PairOn ==
  \E pick \in Picks :
    PairCall("on", Effect_on(Fresh(fx), FALSE, clock, pick), Blink_on(Fresh(g.twin)))

PairOff == PairCall("off", Effect_off(Fresh(fx)), Blink_off(Fresh(g.twin)))

PairToggle ==
  \E pick \in Picks :
    PairCall("toggle", Effect_toggle(Fresh(fx), clock, pick),
             Blink_toggle(Fresh(g.twin)))

PairUpdate ==
  \E pick \in Picks :
    PairCall("update", Effect_update(Fresh(fx), clock, pick),
             Blink_update(Fresh(g.twin), clock))

PairTick ==
  /\ ticks < MaxPairMs
  /\ clock' = Add32(clock, 1)
  /\ ticks' = ticks + 1
  /\ UNCHANGED <<active, fx, h, setup, g>>

NextPair ==
  \/ PairOn
  \/ PairOff
  \/ PairToggle
  \/ PairUpdate
  \/ PairTick

SpecPair == InitPair /\ [][NextPair]_vars

\* C38: an Effect in BLINK mode and a Blink object with the same intervals,
\* driven from construction by the same on(), off(), toggle() and
\* update(now) calls, have the same state, make the same sink writes and
\* the same callback invocations in every call
C38_BlinkTwins ==
  /\ fx.state = g.twin.state
  /\ fx.writes = g.twin.writes
  /\ fx.obj = g.twin.obj
  /\ fx.cbs = g.twin.cbs

\* both objects have just left the lit phase in an update(), 4 ms after
\* construction, with the same write and the same callback
C38_Witness ==
  /\ h.op = "update"
  /\ h.state = 2
  /\ fx.state = 1
  /\ fx.writes = <<Dig(LOW)>>
  /\ g.twin.writes = <<Dig(LOW)>>
  /\ fx.cbs # <<>>
  /\ g.twin.cbs = fx.cbs
  /\ Iv(fx, 0) = 1
  /\ ticks = 4

(***************************************************************************)
(* An Effect in BLINK mode (fx) and an Effect in RHYTHM mode with the one  *)
(* pair setInterval(on, off) (g.twin), constructed at the same time and    *)
(* driven by the same on() and update(now) calls, now being the wall clock.*)
(***************************************************************************)
InitSwap ==
  /\ clock \in StartTimes
  /\ ticks = 0
  /\ active = "Effect"
  /\ \E iv \in PairIntervals :
       /\ fx = Effect_setOffInterval(
                 Effect_setOnInterval(Effect_setModeBlink(Effect_new(clock)), iv[1]),
                 iv[2])
       /\ g = [twin |-> Effect_setInterval(Effect_setModeRhythm(Effect_new(clock)), iv)]
  /\ h = [op |-> "new", state |-> fx.state, onRun |-> 0]
  /\ setup = 0

SwapOn ==
  \E pick \in Picks :
    PairCall("on", Effect_on(Fresh(fx), FALSE, clock, pick),
             Effect_on(Fresh(g.twin), FALSE, clock, pick))

SwapUpdate ==
  \E pick \in Picks :
    PairCall("update", Effect_update(Fresh(fx), clock, pick),
             Effect_update(Fresh(g.twin), clock, pick))

NextSwap ==
  \/ SwapOn
  \/ SwapUpdate
  \/ PairTick

SpecSwap == InitSwap /\ [][NextSwap]_vars

\* C39: an Effect in RHYTHM mode with setInterval(on, off) makes the same
\* sink writes in the same calls as an Effect in BLINK mode with the same
\* intervals, for the same on() and update(now) calls
C39_RhythmAsBlink == fx.writes = g.twin.writes

\* what holds instead: BLINK writes HIGH when it enters state 2 and LOW when
\* it enters state 1, RHYTHM writes LOW when it enters state 2 and HIGH when
\* it enters state 1
SwapOppositePhases ==
  /\ fx.writes # <<>> => fx.writes = <<Dig(IF fx.state = 2 THEN HIGH ELSE LOW)>>
  /\ g.twin.writes # <<>> =>
       g.twin.writes = <<Dig(IF g.twin.state = 2 THEN LOW ELSE HIGH)>>

====
